---- MODULE Spec2Model ----
(***************************************************************************)
(* Model of the customtags argument grammar engine: token stream,          *)
(* expression parser, argument descriptors, the structuring pass and the   *)
(* tag-invocation parse.                                                   *)
(*                                                                         *)
(* Strings are sequences of one-character strings, so that the string      *)
(* conversions of the code (strip, lower) are computed and not assumed.    *)
(***************************************************************************)
EXTENDS Integers, Sequences, FiniteSets, TLC

(***************************************************************************)
(* Bounds of the model.                                                    *)
(***************************************************************************)
MaxLen == 3

MaxIter == 4

(***************************************************************************)
(* Python's None and the NULL marker class of utils.py; neither is a       *)
(* string, so they are written as sequences no token value can equal.      *)
(***************************************************************************)
None == <<"<None>">>

NULL == <<"<NULL>">>

IsString(v) == v # None /\ v # NULL

(***************************************************************************)
(* Generic sequence helpers.                                               *)
(***************************************************************************)
RECURSIVE SeqToSet(_)
SeqToSet(q) == IF q = <<>> THEN {} ELSE {Head(q)} \cup SeqToSet(Tail(q))

InSeq(x, q) == \E i \in 1..Len(q) : q[i] = x

RECURSIVE SeqsUpTo(_, _)
SeqsUpTo(S, n) ==
    IF n = 0 THEN {<<>>}
    ELSE LET shorter == SeqsUpTo(S, n - 1)
         IN  shorter \cup {Append(q, x) : q \in {r \in shorter : Len(r) = n - 1}, x \in S}

(***************************************************************************)
(* Tokens (lexer.Token): a type and a value.  TokenStream keeps the        *)
(* remaining tokens in the deque _pushed; a stream is that sequence.       *)
(***************************************************************************)
Token(type, value) == [type |-> type, value |-> value]

EOF_TOKEN_INSTANCE == Token("eof", <<>>)

NameTok(v) == Token("name", v)

eos(stream) == stream = <<>>

size(stream) == Len(stream)

current(stream) == IF stream # <<>> THEN Head(stream) ELSE EOF_TOKEN_INSTANCE

\* TokenStream.__copy__: a new deque holding the same remaining tokens.
copy(stream) == stream

\* TokenStream.__next__: drop the current token (no-op on an exhausted stream).
next(stream) == IF stream # <<>> THEN Tail(stream) ELSE stream

push(stream, token) == <<token>> \o stream

\* TokenStream.look: next, read current, push the old token back.
look(stream) == current(next(stream))

lookStream(stream) == push(next(stream), current(stream))

\* Token.test: a bare type, or "type:value".
test(token, type, value) ==
    IF value = None THEN token.type = type
    ELSE token.type = type /\ token.value = value

skip_if(stream, type, value) == test(current(stream), type, value)

(***************************************************************************)
(* Exception classes.  exceptions.py derives every argument-level error    *)
(* from BaseError (itself a TemplateSyntaxError); ExprParser.fail raises a *)
(* plain TemplateSyntaxError, which is not a BaseError.                    *)
(***************************************************************************)
BaseErrors ==
    {"BaseError", "TagNameError", "UnexpectedElement", "ArgumentRequiredError",
     "InvalidArgument", "InvalidFlag", "BreakpointExpected", "TooManyArguments",
     "TooFewArguments", "KeywordInUse", "FormatError", "UnexpectedTokenError"}

IsBaseError(err) == err \in BaseErrors

(***************************************************************************)
(* Resolved values and expression nodes (nodes.py).                        *)
(***************************************************************************)
StrV(s) == [t |-> "str", s |-> s]

IntV(i) == [t |-> "int", i |-> i]

BoolV(b) == [t |-> "bool", b |-> b]

NoneV == [t |-> "none"]

NullV == [t |-> "NULL"]

Name(name) == [node |-> "Name", name |-> name]

Const(value) == [node |-> "Const", value |-> value]

BinNode(kind, left, right) == [node |-> kind, left |-> left, right |-> right]

UnaryNode(kind, operand) == [node |-> kind, operand |-> operand]

CondExpr(tst, expr1, expr2) ==
    [node |-> "CondExpr", test |-> tst, expr1 |-> expr1, expr2 |-> expr2]

NoNode == [node |-> "None"]

(***************************************************************************)
(* Words the expression grammar reserves.                                  *)
(***************************************************************************)
KwIf == <<"i", "f">>

KwElse == <<"e", "l", "s", "e">>

KwOr == <<"o", "r">>

KwAnd == <<"a", "n", "d">>

KwNot == <<"n", "o", "t">>

KwIn == <<"i", "n">>

KwIs == <<"i", "s">>

_compare_operators == {"eq", "ne", "lt", "lteq", "gt", "gteq"}

(***************************************************************************)
(* ExprParser (expr_parser.py).  Every parse_* operator takes the stream   *)
(* and returns either [ok = TRUE, node, rest] or [ok = FALSE, err, rest],  *)
(* rest being the stream as the parser left it.                            *)
(***************************************************************************)
Ok(node, rest) == [ok |-> TRUE, node |-> node, rest |-> rest]

Fail(err, rest) == [ok |-> FALSE, err |-> err, rest |-> rest]

\* TokenStream.expect: consume the current token if it tests true.
expect(stream, type) ==
    IF current(stream).type = type
    THEN [ok |-> TRUE, token |-> current(stream), rest |-> next(stream)]
    ELSE [ok |-> FALSE, err |-> "UnexpectedTokenError", rest |-> stream]

\* The left-folding binary levels below parse_compare, loosest first:
\* parse_add, parse_sub, (parse_concat), parse_mul, parse_div,
\* parse_floordiv, parse_mod, parse_pow.
BinLevels ==
    << [tok |-> "add", node |-> "Add"],
       [tok |-> "sub", node |-> "Sub"],
       [tok |-> "mul", node |-> "Mul"],
       [tok |-> "div", node |-> "Div"],
       [tok |-> "floordiv", node |-> "FloorDiv"],
       [tok |-> "mod", node |-> "Mod"],
       [tok |-> "pow", node |-> "Pow"] >>

\* parse_sub is level 2 and calls parse_concat, which calls parse_mul.
SubLevel == 2

\* A loop of the parser is written as the operand it parses next and the
\* step taken on the result, so that every parse_* level is entered from
\* one place.  left is NoNode until the first operand is parsed.
Fold(kind, left, right) == IF left = NoNode THEN right ELSE BinNode(kind, left, right)

RECURSIVE parse_condexpr(_), CondLoop(_, _), CondNext(_, _), CondTail(_, _)
RECURSIVE CondElse(_, _, _), parse_or(_), OrLoop(_, _), OrNext(_, _)
RECURSIVE parse_and(_), AndLoop(_, _), AndNext(_, _), parse_not(_), NotWrap(_)
RECURSIVE parse_compare(_), CompareLoop(_, _, _, _), CompareNext(_, _, _, _)
RECURSIVE CompareTail(_, _, _), ParseLevel(_, _), LevelLoop(_, _, _)
RECURSIVE LevelNext(_, _, _), Tighter(_, _), parse_concat(_), ConcatLoop(_, _)
RECURSIVE ConcatNext(_, _), parse_unary(_, _), UnaryOperand(_), UnaryWrap(_, _)
RECURSIVE UnaryFilter(_, _), parse_primary(_), parse_filter_expr(_, _)
RECURSIVE FilterNext(_), parse_test(_, _), TestNegated(_, _, _)
RECURSIVE TestName(_, _, _), TestArgs(_, _, _, _), TestWrap(_, _, _, _)

parse_expression(stream) == parse_condexpr(stream)

parse_add(stream) == ParseLevel(1, stream)

\* expr1 = self.parse_or(), then the while loop
parse_condexpr(stream) == CondLoop(NoNode, stream)

\* The next parse_or: expr1 when there is none yet, expr2 after an `if`.
CondLoop(expr1, stream) == CondNext(expr1, parse_or(stream))

CondNext(expr1, r) ==
    IF ~r.ok THEN r
    ELSE IF expr1 = NoNode THEN CondTail(r.node, r.rest)
    ELSE IF skip_if(r.rest, "name", KwElse)
    THEN CondElse(expr1, r.node, parse_condexpr(next(r.rest)))
    ELSE CondTail(CondExpr(r.node, expr1, NoNode), r.rest)

CondElse(expr1, expr2, r3) ==
    IF ~r3.ok THEN r3 ELSE CondTail(CondExpr(expr2, expr1, r3.node), r3.rest)

\* while self.stream.skip_if('name:if')
CondTail(expr1, stream) ==
    IF skip_if(stream, "name", KwIf) THEN CondLoop(expr1, next(stream))
    ELSE Ok(expr1, stream)

parse_or(stream) == OrLoop(NoNode, stream)

OrLoop(left, stream) == OrNext(left, parse_and(stream))

OrNext(left, r) ==
    IF ~r.ok THEN r
    ELSE IF skip_if(r.rest, "name", KwOr)
    THEN OrLoop(Fold("Or", left, r.node), next(r.rest))
    ELSE Ok(Fold("Or", left, r.node), r.rest)

parse_and(stream) == AndLoop(NoNode, stream)

AndLoop(left, stream) == AndNext(left, parse_not(stream))

AndNext(left, r) ==
    IF ~r.ok THEN r
    ELSE IF skip_if(r.rest, "name", KwAnd)
    THEN AndLoop(Fold("And", left, r.node), next(r.rest))
    ELSE Ok(Fold("And", left, r.node), r.rest)

parse_not(stream) ==
    IF test(current(stream), "name", KwNot) THEN NotWrap(parse_not(next(stream)))
    ELSE parse_compare(stream)

NotWrap(r) == IF ~r.ok THEN r ELSE Ok(UnaryNode("Not", r.node), r.rest)

\* expr is NoNode until the first parse_add; op is the operator the next
\* operand belongs to, ops the list of Operand(op, expr) collected so far.
parse_compare(stream) == CompareLoop(NoNode, <<>>, "", stream)

CompareLoop(expr, ops, op, stream) == CompareNext(expr, ops, op, parse_add(stream))

CompareNext(expr, ops, op, r) ==
    IF ~r.ok THEN r
    ELSE IF expr = NoNode THEN CompareTail(r.node, ops, r.rest)
    ELSE CompareTail(expr, Append(ops, [op |-> op, expr |-> r.node]), r.rest)

\* One turn of `while 1`; an assign token counts as eq.
CompareTail(expr, ops, stream) ==
    IF current(stream).type \in _compare_operators \cup {"assign"}
    THEN CompareLoop(expr, ops,
                     IF current(stream).type = "assign" THEN "eq"
                     ELSE current(stream).type,
                     next(stream))
    ELSE IF skip_if(stream, "name", KwIn)
    THEN CompareLoop(expr, ops, "in", next(stream))
    ELSE IF test(current(stream), "name", KwNot) /\ test(look(stream), "name", KwIn)
    THEN CompareLoop(expr, ops, "notin", next(next(lookStream(stream))))
    ELSE IF ops = <<>> THEN Ok(expr, stream)
    ELSE Ok([node |-> "Compare", expr |-> expr, ops |-> ops], stream)

\* parse_add .. parse_pow: parse the next tighter level, then fold the
\* operands of this level's own operator to the left.
Tighter(level, stream) ==
    IF level = SubLevel THEN parse_concat(stream)
    ELSE IF level = Len(BinLevels) THEN parse_unary(stream, TRUE)
    ELSE ParseLevel(level + 1, stream)

ParseLevel(level, stream) == LevelLoop(level, NoNode, stream)

LevelLoop(level, left, stream) == LevelNext(level, left, Tighter(level, stream))

LevelNext(level, left, r) ==
    IF ~r.ok THEN r
    ELSE IF current(r.rest).type = BinLevels[level].tok
    THEN LevelLoop(level, Fold(BinLevels[level].node, left, r.node), next(r.rest))
    ELSE Ok(Fold(BinLevels[level].node, left, r.node), r.rest)

\* parse_concat collects its operands in one list.
parse_concat(stream) == ConcatLoop(<<>>, stream)

ConcatLoop(args, stream) == ConcatNext(args, ParseLevel(SubLevel + 1, stream))

ConcatNext(args, r) ==
    IF ~r.ok THEN r
    ELSE IF current(r.rest).type = "tilde"
    THEN ConcatLoop(Append(args, r.node), next(r.rest))
    ELSE IF args = <<>> THEN Ok(r.node, r.rest)
    ELSE Ok([node |-> "Concat", nodes |-> Append(args, r.node)], r.rest)

\* parse_postfix acts on dot, bracket and parenthesis tokens only, and
\* parse_filter_expr on pipe, parenthesis and the word `is`.
parse_unary(stream, with_filter) == UnaryFilter(with_filter, UnaryOperand(stream))

UnaryOperand(stream) ==
    IF current(stream).type \in {"sub", "add"}
    THEN UnaryWrap(IF current(stream).type = "sub" THEN "Neg" ELSE "Pos",
                   parse_unary(next(stream), FALSE))
    ELSE parse_primary(stream)

UnaryWrap(kind, u) == IF ~u.ok THEN u ELSE Ok(UnaryNode(kind, u.node), u.rest)

UnaryFilter(with_filter, r) ==
    IF ~r.ok THEN r
    ELSE IF with_filter THEN parse_filter_expr(r.node, r.rest)
    ELSE r

\* Tokens that open a tuple, list or dict are not in the vocabulary of the
\* model; every other token type takes the final branch (self.fail).
parse_primary(stream) ==
    LET token == current(stream)
    IN  IF token.type = "name"
        THEN IF token.value \in {<<"t","r","u","e">>, <<"T","r","u","e">>}
             THEN Ok(Const(BoolV(TRUE)), next(stream))
             ELSE IF token.value \in {<<"f","a","l","s","e">>, <<"F","a","l","s","e">>}
             THEN Ok(Const(BoolV(FALSE)), next(stream))
             ELSE IF token.value \in {<<"n","o","n","e">>, <<"N","o","n","e">>}
             THEN Ok(Const(NoneV), next(stream))
             \* nodes.Name.__init__ rejects the reserved names with BaseError
             ELSE IF token.value \in {KwAnd, KwOr}
             THEN Fail("BaseError", stream)
             ELSE Ok(Name(token.value), next(stream))
        ELSE IF token.type = "string"
        THEN Ok(Const(StrV(token.value)), next(stream))
        ELSE IF token.type = "integer"
        THEN Ok(Const(IntV(token.value)), next(stream))
        ELSE Fail("TemplateSyntaxError", stream)

parse_filter_expr(node, stream) ==
    IF current(stream).type = "name" /\ current(stream).value = KwIs
    THEN FilterNext(parse_test(node, stream))
    ELSE Ok(node, stream)

FilterNext(r) == IF ~r.ok THEN r ELSE parse_filter_expr(r.node, r.rest)

\* nodes.Test(node, name, args), wrapped in Not when the test is negated
TestNode(node, negated, name, args) ==
    IF negated
    THEN UnaryNode("Not", [node |-> "Test", operand |-> node, name |-> name,
                           args |-> args])
    ELSE [node |-> "Test", operand |-> node, name |-> name, args |-> args]

\* next(self.stream) over `is`, then the optional `not`
parse_test(node, stream) ==
    TestNegated(node, test(current(next(stream)), "name", KwNot), next(stream))

TestNegated(node, negated, s1) ==
    TestName(node, negated, expect(IF negated THEN next(s1) ELSE s1, "name"))

TestName(node, negated, nm) ==
    IF ~nm.ok THEN Fail(nm.err, nm.rest)
    ELSE TestArgs(node, negated, nm.token.value, nm.rest)

TestArgs(node, negated, name, s3) ==
    IF current(s3).type \in {"name", "string", "integer", "float"}
       /\ ~(current(s3).type = "name" /\ current(s3).value \in {KwElse, KwOr, KwAnd})
    THEN IF test(current(s3), "name", KwIs)
         THEN Fail("TemplateSyntaxError", s3)
         ELSE TestWrap(node, negated, name, parse_expression(s3))
    ELSE Ok(TestNode(node, negated, name, <<>>), s3)

TestWrap(node, negated, name, a) ==
    IF ~a.ok THEN a ELSE Ok(TestNode(node, negated, name, <<a.node>>), a.rest)

(***************************************************************************)
(* Value wrappers (values.py).                                             *)
(***************************************************************************)
QuoteChars == {"'", "\""}

RECURSIVE LStrip(_)
LStrip(s) == IF s # <<>> /\ Head(s) \in QuoteChars THEN LStrip(Tail(s)) ELSE s

RECURSIVE RStrip(_)
RStrip(s) ==
    IF s # <<>> /\ s[Len(s)] \in QuoteChars THEN RStrip(SubSeq(s, 1, Len(s) - 1)) ELSE s

\* str.strip('"\'')
strip(s) == RStrip(LStrip(s))

\* StaticValue.__init__: a string value loses its leading and trailing quotes.
StaticValue(value) ==
    [cls |-> "StaticValue",
     value |-> IF value.t = "str" THEN StrV(strip(value.s)) ELSE value]

StringValue(var) == [cls |-> "StringValue", var |-> var]

ListValue(items) == [cls |-> "ListValue", items |-> items]

DictValue(items) == [cls |-> "DictValue", items |-> items]

\* A django NodeList object: its nodes, and which object it is.  A list that
\* Parser.parse built is told apart by how many document tokens were unread
\* when the call began (plus one); a list built anywhere else is number 0.
NodeListV(nodes, at) == [t |-> "nodelist", nodes |-> nodes, at |-> at]

EmptyMap == [k \in {} |-> NoneV]

\* utils.Container / arguments.RepContainer: the argument bag.
Container == [tag_args |-> <<>>, tag_kwargs |-> EmptyMap, tag_nodelists |-> <<>>]

RepContainer(c) ==
    [cls |-> "RepContainer", tag_args |-> c.tag_args, tag_kwargs |-> c.tag_kwargs]

SetKw(container, name, value) ==
    [container EXCEPT !.tag_kwargs =
        [k \in DOMAIN container.tag_kwargs \cup {name} |->
            IF k = name THEN value ELSE container.tag_kwargs[k]]]

AppendArg(container, value) ==
    [container EXCEPT !.tag_args = Append(container.tag_args, value)]

(***************************************************************************)
(* Argument descriptors (arguments.py): the configuration each constructor *)
(* stores.  A bare string of an Options list is kept as kind "basestring"  *)
(* until the structuring pass turns it into a Constant.                    *)
(***************************************************************************)
Str(value) == [kind |-> "basestring", value |-> value]

Constant(value) ==
    [kind |-> "Constant", name |-> None, required |-> TRUE, value |-> value,
     tagname |-> None]

Argument(name, default, required, resolve) ==
    [kind |-> "Argument", name |-> name, default |-> default, required |-> required,
     resolve |-> resolve, exclude |-> <<>>, tagname |-> None]

KeywordArgument(name, default, required) ==
    [kind |-> "KeywordArgument", name |-> name, default |-> default,
     required |-> required, resolve |-> TRUE, exclude |-> <<>>, tagname |-> None]

\* MultiValueBase.__init__: default NULL becomes the empty list; max_values 0
\* stands for max_values=None.
MultiValueArgument(name, required, max_values, commas) ==
    [kind |-> "MultiValueArgument", name |-> name, default |-> NullV,
     required |-> required, resolve |-> TRUE, exclude |-> <<>>,
     max_values |-> max_values, commas |-> commas, tagname |-> None]

MultiValueKeywordArgument(name, required, max_values, commas) ==
    [kind |-> "MultiValueKeywordArgument", name |-> name, default |-> NullV,
     required |-> required, resolve |-> TRUE, exclude |-> <<>>,
     max_values |-> max_values, commas |-> commas, tagname |-> None]

\* Flag.__init__: required exactly when no default is given; the vocabularies
\* are stored through mod (lower-casing unless case_sensitive).
LowerOf ==
    [c \in {"A", "O", "N", "F", "B"} |->
        CASE c = "A" -> "a" [] c = "O" -> "o" [] c = "N" -> "n"
          [] c = "F" -> "f" [] c = "B" -> "b"]

lower(s) == [i \in 1..Len(s) |-> IF s[i] \in DOMAIN LowerOf THEN LowerOf[s[i]] ELSE s[i]]

mod(case_sensitive, x) == IF case_sensitive THEN x ELSE lower(x)

Flag(name, default, true_values, false_values, case_sensitive) ==
    [kind |-> "Flag", name |-> name, default |-> default,
     required |-> (default = NullV), resolve |-> TRUE, exclude |-> <<>>,
     true_values |-> {mod(case_sensitive, tv) : tv \in true_values},
     false_values |-> {mod(case_sensitive, fv) : fv \in false_values},
     case_sensitive |-> case_sensitive, tagname |-> None]

Optional(arguments) ==
    [kind |-> "Optional", name |-> None, required |-> TRUE, arguments |-> arguments,
     tagname |-> None]

OneOf(arguments) ==
    [kind |-> "OneOf", name |-> None, required |-> TRUE, arguments |-> arguments,
     tagname |-> None]

\* Repetition.__init__: required exactly when min_reps > 0; max_reps 0 stands
\* for max_reps=None.
Repetition(name, arguments, min_reps, max_reps) ==
    [kind |-> "Repetition", name |-> name, required |-> (min_reps > 0),
     arguments |-> arguments, min_reps |-> min_reps, max_reps |-> max_reps,
     tagname |-> None]

\* endtags=None of NodeList.__init__.
NoEndtags == <<None>>

\* NodeList.__init__ / Literal: the explicit end-tags are kept apart from
\* the ones the structuring pass computes.
NodeList(name, endtags, required) ==
    [kind |-> "NodeList", name |-> name, required |-> required,
     explicit_endtags |-> endtags, endtags |-> endtags, tagname |-> None]

Literal(name, endtags, required) ==
    [NodeList(name, endtags, required) EXCEPT !.kind = "Literal"]

\* EndTag.__init__
EndTag(name, required) ==
    [kind |-> "EndTag", name |-> name, required |-> required, init_name |-> name,
     tagname |-> None]

\* isinstance tests; Repetition derives from Optional.
IsConstant(arg) == arg.kind = "Constant"

IsOptional(arg) == arg.kind \in {"Optional", "Repetition"}

IsMultiArgument(arg) ==
    arg.kind \in {"MultiArgument", "OneOf", "Optional", "Repetition", "BlockTag"}

\* Literal derives from NodeList.
IsNodeList(arg) == arg.kind \in {"NodeList", "Literal"}

IsBlockOrEnd(arg) == arg.kind \in {"BlockTag", "EndTag"}

\* hasattr(arg, 'exclude') / hasattr(arg, 'get_default'): the Argument family.
ArgumentKinds ==
    {"Argument", "KeywordArgument", "MultiValueArgument",
     "MultiValueKeywordArgument", "Flag"}

HasExclude(arg) == arg.kind \in ArgumentKinds

HasGetDefault(arg) == arg.kind \in ArgumentKinds \/ IsNodeList(arg)

\* Argument.get_default; MultiValueBase stores [] for a NULL default.
get_default(arg) ==
    IF arg.kind \in {"MultiValueArgument", "MultiValueKeywordArgument"}
    THEN [cls |-> "StaticValue", value |-> [t |-> "list", items |-> <<>>]]
    ELSE IF arg.kind = "NodeList" THEN StaticValue(NodeListV(<<>>, 0))
    ELSE IF arg.kind = "Literal" THEN StaticValue(StrV(<<>>))
    ELSE StaticValue(arg.default)

\* No exception: the call returned.
NoErr == ""

(***************************************************************************)
(* The structuring pass (parser.py), run once by Options.initialize.       *)
(***************************************************************************)
NoArg == [kind |-> "NoneType", required |-> TRUE]

\* next_contained_argument: the descriptors of a list with the Optional
\* containers stripped; with firsts_only, those that may come first.
RECURSIVE next_contained_argument(_, _)
next_contained_argument(argument_list, firsts_only) ==
    IF argument_list = <<>> THEN <<>>
    ELSE LET current_arg == Head(argument_list)
         IN  IF IsOptional(current_arg)
             THEN next_contained_argument(current_arg.arguments, firsts_only)
                  \o next_contained_argument(Tail(argument_list), firsts_only)
             ELSE IF firsts_only THEN <<current_arg>>
             ELSE <<current_arg>> \o next_contained_argument(Tail(argument_list), firsts_only)

next_contained_first(argument_list) == next_contained_argument(argument_list, TRUE)

RECURSIVE ConstantValues(_)
ConstantValues(args) ==
    IF args = <<>> THEN <<>>
    ELSE (IF IsConstant(Head(args)) THEN <<Head(args).value>> ELSE <<>>)
         \o ConstantValues(Tail(args))

structure_exclude_constant(exclusive_arg, possible_constants) ==
    LET exclude == ConstantValues(next_contained_first(possible_constants))
    IN  IF HasExclude(exclusive_arg)
        THEN [exclusive_arg EXCEPT !.exclude = @ \o exclude]
        ELSE exclusive_arg

s_end == <<"e", "n", "d">>

\* BaseArgument.initialize; BlockTag.initialize keeps the block's own tag
\* name; EndTag.initialize derives 'end' + tagname and its name.
initialize(arg, tagname) ==
    IF arg.kind = "BlockTag" THEN arg
    ELSE IF arg.kind = "EndTag"
    THEN LET endname == IF arg.init_name # None /\ arg.init_name # <<>>
                        THEN arg.init_name ELSE s_end \o tagname
         IN  [arg EXCEPT !.tagname = endname,
                         !.name = IF arg.name # None /\ arg.name # <<>>
                                  THEN arg.name ELSE endname]
    ELSE [arg EXCEPT !.tagname = tagname]

\* not_required_to_optional, were it to wrap the non-required descriptor on
\* its own and leave the Constant before it where it is.
not_required_to_optional_alone(first, second) ==
    IF ~second.required /\ ~IsOptional(second)
    THEN [first |-> first,
          second |-> initialize(Optional(<<second>>), second.tagname),
          merged |-> FALSE]
    ELSE [first |-> first, second |-> second, merged |-> FALSE]

not_required_to_optional(first, second) ==
    IF ~second.required
    THEN IF IsConstant(first)
         THEN [first |-> initialize(Optional(<<first, second>>), first.tagname),
               second |-> NoArg, merged |-> TRUE]
         ELSE IF ~IsOptional(second)
         THEN [first |-> first,
               second |-> initialize(Optional(<<second>>), second.tagname),
               merged |-> FALSE]
         ELSE [first |-> first, second |-> second, merged |-> FALSE]
    ELSE [first |-> first, second |-> second, merged |-> FALSE]

RemoveAt(q, j) == SubSeq(q, 1, j - 1) \o SubSeq(q, j + 1, Len(q))

\* What a step of the structuring pass hands back: the exception class it
\* raised ("" when it returned) and the descriptor or the list it built.
SA(err, arg) == [err |-> err, arg |-> arg]

SR(err, arguments) == [err |-> err, arguments |-> arguments]

Tagnames(args) == [k \in 1..Len(args) |-> args[k].tagname]

\* The inner loops of possible_nodelist_endtags over a OneOf: the first
\* descriptors of every alternative.
RECURSIVE OneOfFirsts(_)
OneOfFirsts(alternatives) ==
    IF alternatives = <<>> THEN <<>>
    ELSE next_contained_argument(<<Head(alternatives)>>, TRUE)
         \o OneOfFirsts(Tail(alternatives))

\* possible_nodelist_endtags, the loop: [err, endtags]
RECURSIVE EndtagsLoop(_, _)
EndtagsLoop(possible_block_tags, endtags) ==
    IF possible_block_tags = <<>>
    THEN IF endtags = <<>> THEN [err |-> "ImproperlyConfigured", endtags |-> endtags]
         ELSE [err |-> NoErr, endtags |-> endtags]
    ELSE LET possible_block_tag == Head(possible_block_tags)
         IN  IF possible_block_tag.kind = "OneOf"
             THEN IF \E k \in DOMAIN OneOfFirsts(possible_block_tag.arguments) :
                         ~IsBlockOrEnd(OneOfFirsts(possible_block_tag.arguments)[k])
                  THEN [err |-> "ImproperlyConfigured", endtags |-> endtags]
                  ELSE EndtagsLoop(Tail(possible_block_tags),
                                   endtags \o Tagnames(OneOfFirsts(possible_block_tag.arguments)))
             ELSE IF ~IsBlockOrEnd(possible_block_tag)
             THEN [err |-> "ImproperlyConfigured", endtags |-> endtags]
             ELSE EndtagsLoop(Tail(possible_block_tags),
                              Append(endtags, possible_block_tag.tagname))

possible_nodelist_endtags(possible_nodelist, possible_block_tags) ==
    IF possible_nodelist.explicit_endtags # NoEndtags
    THEN [err |-> NoErr, endtags |-> possible_nodelist.explicit_endtags]
    ELSE EndtagsLoop(next_contained_first(possible_block_tags), <<>>)

SetEndtags(possible_nodelist, e) ==
    IF e.err # NoErr THEN SA(e.err, possible_nodelist)
    ELSE SA(NoErr, [possible_nodelist EXCEPT !.endtags = e.endtags])

structure_possible_nodelist(possible_nodelist, possible_block_tags) ==
    IF IsNodeList(possible_nodelist)
    THEN SetEndtags(possible_nodelist,
                    possible_nodelist_endtags(possible_nodelist, possible_block_tags))
    ELSE SA(NoErr, possible_nodelist)

RECURSIVE structure_arguments(_, _, _, _), StructureArg(_, _, _), StructureLoop(_, _, _, _, _)
RECURSIVE StructureChildren(_, _, _), StructureStep(_, _, _, _, _, _)

\* The "set up for parsing" part: exclusion list, then end-tags.
StructureSetup(arg, already_visited_list) ==
    structure_possible_nodelist(structure_exclude_constant(arg, already_visited_list),
                                already_visited_list)

\* The children of a MultiArgument have been structured (or have raised).
StructureChildren(arg, already_visited_list, r) ==
    IF r.err # NoErr THEN SA(r.err, arg)
    ELSE StructureSetup([arg EXCEPT !.arguments = r.arguments], already_visited_list)

\* The per-descriptor part of structure_arguments: string to Constant,
\* initialize, recursion into a MultiArgument, exclusion list, end-tags.
StructureArg(arg, tagname, already_visited_list) ==
    LET a0 == IF arg.kind = "basestring" THEN Constant(arg.value) ELSE arg
        a1 == initialize(a0, tagname)
    IN  IF IsMultiArgument(a1)
        THEN StructureChildren(a1, already_visited_list,
                               structure_arguments(a1.arguments, a1.tagname,
                                                   already_visited_list, IsOptional(a1)))
        ELSE StructureSetup(a1, already_visited_list)

\* The rest of one iteration, made being what StructureArg made of
\* arguments[i]: the wrapping of non-required descriptors.
StructureStep(arguments, i, tagname, nextargs_outside, is_optional, made) ==
    IF made.err # NoErr THEN SR(made.err, arguments)
    ELSE LET j == i + 1
             current_arg == made.arg
             pair == not_required_to_optional(current_arg, arguments[j])
             arguments1 ==
                 IF is_optional THEN [arguments EXCEPT ![i] = current_arg]
                 ELSE IF pair.merged
                 THEN RemoveAt([arguments EXCEPT ![i] = pair.first], j)
                 ELSE [arguments EXCEPT ![i] = pair.first, ![j] = pair.second]
         IN  StructureLoop(arguments1, i - 1, tagname, nextargs_outside, is_optional)

\* The backwards scan, i running from the last but one descriptor to the first.
StructureLoop(arguments, i, tagname, nextargs_outside, is_optional) ==
    IF i = 0
    THEN IF is_optional THEN SR(NoErr, arguments)
         ELSE SR(NoErr, [arguments EXCEPT
                            ![1] = not_required_to_optional(NoArg, arguments[1]).second])
    ELSE IF arguments[i].kind = "EndTag" THEN SR("ImproperlyConfigured", arguments)
    ELSE StructureStep(arguments, i, tagname, nextargs_outside, is_optional,
                       StructureArg(arguments[i], tagname,
                                    SubSeq(arguments, i + 1, Len(arguments))
                                        \o nextargs_outside))

\* The last descriptor has been structured (or has raised).
StructureLast(arguments, tagname, nextargs_outside, is_optional, last) ==
    IF last.err # NoErr THEN SR(last.err, arguments)
    ELSE StructureLoop([arguments EXCEPT ![Len(arguments)] = last.arg],
                       Len(arguments) - 1, tagname, nextargs_outside, is_optional)

structure_arguments(arguments, tagname, nextargs_outside, is_optional) ==
    IF Len(arguments) = 0 THEN SR(NoErr, arguments)
    ELSE StructureLast(arguments, tagname, nextargs_outside, is_optional,
                       StructureArg(arguments[Len(arguments)], tagname, nextargs_outside))

\* BlockTag.__init__: the tag name is the block's own.
BlockTag(tagname, arguments) ==
    [kind |-> "BlockTag", name |-> tagname, required |-> TRUE,
     arguments |-> arguments, tagname |-> tagname]

\* BlockTag(name, ..., required=False)
NotRequiredBlockTag(tagname, arguments) ==
    [BlockTag(tagname, arguments) EXCEPT !.required = FALSE]

\* What Options.initialize leaves: the exception class it raised, or the
\* root BlockTag as self.parser.
OI(err, root) == [err |-> err, parser |-> root]

\* Options.initialize after the structuring pass: a BlockTag in front is
\* refused; otherwise the tag name goes in front and the root BlockTag is
\* built from the list.
OptionsStructured(tagname, r) ==
    IF r.err # NoErr THEN OI(r.err, NoArg)
    ELSE IF Len(r.arguments) > 0 /\ r.arguments[1].kind = "BlockTag"
    THEN OI("ImproperlyConfigured", NoArg)
    ELSE OI(NoErr, BlockTag(tagname, r.arguments))

Options_initialize(arguments, tagname) ==
    OptionsStructured(tagname, structure_arguments(arguments, tagname, <<>>, FALSE))

(***************************************************************************)
(* The invocation parse (arguments.py).  A parse result carries the        *)
(* exception class raised ("" when the call returned), and the stream,     *)
(* the container and the document parser as the call left them.            *)
(* "<diverges>" marks a call that never returns.                           *)
(***************************************************************************)
Diverges == "<diverges>"

PR(err, parser, stream, container) ==
    [err |-> err, parser |-> parser, stream |-> stream, container |-> container]

\* A raised exception that an "except BaseError" clause catches.
Caught(err) == IsBaseError(err)

\* parser_copy of Optional/OneOf/Repetition.parse: a parser over a copy of
\* the remaining document tokens.
ParserCopy(parser) == parser

\* Constant.clean_token
ConstantCleanToken(arg, stream) ==
    IF eos(stream) THEN "TooFewArguments"
    ELSE IF arg.value = current(stream).value THEN NoErr
    ELSE "BreakpointExpected"

\* The parsed expression as the value of a clean_token.
ExprValue(r) ==
    IF r.ok THEN [err |-> NoErr, stream |-> r.rest, value |-> r.node]
    ELSE [err |-> r.err, stream |-> r.rest]

\* Argument.clean_token: [err, stream, value]
ArgumentCleanToken(arg, stream) ==
    IF eos(stream)
    THEN [err |-> "ArgumentRequiredError", stream |-> stream]
    ELSE IF InSeq(current(stream).value, arg.exclude)
    THEN [err |-> "InvalidArgument", stream |-> stream]
    ELSE IF arg.resolve
    THEN ExprValue(parse_expression(stream))
    ELSE [err |-> NoErr, stream |-> next(stream),
          value |-> StaticValue(StrV(current(stream).value))]

\* KeywordArgument.validate_name; MultiValueKeywordArgument overrides it.
validate_name(arg, name) ==
    IF arg.kind = "KeywordArgument" /\ arg.name # None /\ arg.name # <<>>
       /\ name # arg.name
    THEN "ArgumentRequiredError"
    ELSE NoErr

\* The checks of KeywordArgument.clean_token on the parsed pair.
KeywordValue(arg, name, r) ==
    IF ~r.ok THEN [err |-> r.err, stream |-> r.rest]
    ELSE IF InSeq(name, arg.exclude)
    THEN [err |-> "InvalidArgument", stream |-> r.rest]
    ELSE IF validate_name(arg, name) # NoErr
    THEN [err |-> validate_name(arg, name), stream |-> r.rest]
    ELSE [err |-> NoErr, stream |-> r.rest, name |-> name, value |-> r.node]

\* value = stream.expect('assign'), then the expression
KeywordAssign(arg, name, eq) ==
    IF ~eq.ok THEN [err |-> eq.err, stream |-> eq.rest]
    ELSE KeywordValue(arg, name, parse_expression(eq.rest))

\* name = stream.expect('name')
KeywordName(arg, nm) ==
    IF ~nm.ok THEN [err |-> nm.err, stream |-> nm.rest]
    ELSE KeywordAssign(arg, nm.token.value, expect(nm.rest, "assign"))

\* KeywordArgument.clean_token: [err, stream, name, value]
KeywordCleanToken(arg, stream) ==
    IF eos(stream)
    THEN [err |-> "ArgumentRequiredError", stream |-> stream]
    ELSE KeywordName(arg, expect(stream, "name"))

IsKeywordKind(arg) == arg.kind \in {"KeywordArgument", "MultiValueKeywordArgument"}

\* self.value_class(value) around the cleaned value, bound to `name`
WrapValue(name, c) ==
    IF c.err # NoErr THEN c
    ELSE [err |-> NoErr, stream |-> c.stream, name |-> name,
          value |-> StringValue(c.value)]

\* KeywordArgument.get_value: the name is the one the token carries.
KeywordWrap(c) == IF c.err # NoErr THEN c ELSE WrapValue(c.name, c)

\* get_value: [err, stream, name, value], the value wrapped in value_class.
get_value(arg, stream) ==
    IF IsKeywordKind(arg) THEN KeywordWrap(KeywordCleanToken(arg, stream))
    ELSE WrapValue(arg.name, ArgumentCleanToken(arg, stream))

\* Flag.clean_token: [err, value]
FlagCleanToken(arg, stream) ==
    IF eos(stream) THEN [err |-> "TooFewArguments"]
    ELSE LET token == current(stream).value
             ltoken == mod(arg.case_sensitive, token)
         IN  IF InSeq(token, arg.exclude) \/ InSeq(ltoken, arg.exclude)
             THEN [err |-> "InvalidArgument"]
             ELSE IF arg.true_values # {} /\ ltoken \in arg.true_values
             THEN [err |-> NoErr, value |-> StaticValue(BoolV(TRUE))]
             ELSE IF arg.false_values # {} /\ ltoken \in arg.false_values
             THEN [err |-> NoErr, value |-> StaticValue(BoolV(FALSE))]
             ELSE [err |-> "InvalidFlag"]

Truthy(name) == name # None /\ name # <<>>

\* Argument.set_value: [err, container]
\* Argument.set_value, were it to append every value to the positional
\* entries whatever its name.
ArgumentSetValuePositional(arg, name, value, container) ==
    [err |-> NoErr, container |-> AppendArg(container, value)]

ArgumentSetValue(arg, name, value, container) ==
    IF name # None
    THEN IF name \in DOMAIN container.tag_kwargs
         THEN [err |-> "KeywordInUse", container |-> container]
         ELSE [err |-> NoErr, container |-> SetKw(container, name, value)]
    ELSE [err |-> NoErr, container |-> AppendArg(container, value)]

\* MultiValueArgument.set_value
MultiValueSetValue(arg, name, value, container) ==
    IF Truthy(arg.name)
    THEN IF arg.name \notin DOMAIN container.tag_kwargs
         THEN [err |-> NoErr,
               container |-> SetKw(container, arg.name, ListValue(<<value>>))]
         ELSE IF container.tag_kwargs[arg.name].cls # "ListValue"
         THEN [err |-> "KeywordInUse", container |-> container]
         ELSE [err |-> NoErr,
               container |-> SetKw(container, arg.name,
                   ListValue(Append(container.tag_kwargs[arg.name].items, value)))]
    ELSE [err |-> NoErr, container |-> AppendArg(container, value)]

DictPut(d, k, v) == [x \in DOMAIN d \cup {k} |-> IF x = k THEN v ELSE d[x]]

\* MultiValueKeywordArgument.set_value
MultiValueKeywordSetValue(arg, name, value, container) ==
    IF Truthy(arg.name)
    THEN IF arg.name \notin DOMAIN container.tag_kwargs
         THEN [err |-> NoErr,
               container |-> SetKw(container, arg.name,
                                   DictValue(DictPut(EmptyMap, name, value)))]
         ELSE IF container.tag_kwargs[arg.name].cls # "DictValue"
         THEN [err |-> "KeywordInUse", container |-> container]
         ELSE IF name \in DOMAIN container.tag_kwargs[arg.name].items
         THEN [err |-> "KeywordInUse", container |-> container]
         ELSE [err |-> NoErr,
               container |-> SetKw(container, arg.name,
                   DictValue(DictPut(container.tag_kwargs[arg.name].items, name, value)))]
    ELSE IF name \in DOMAIN container.tag_kwargs
         THEN [err |-> "KeywordInUse", container |-> container]
         ELSE [err |-> NoErr, container |-> SetKw(container, name, value)]

set_value(arg, name, value, container) ==
    IF arg.kind = "MultiValueArgument" THEN MultiValueSetValue(arg, name, value, container)
    ELSE IF arg.kind = "MultiValueKeywordArgument"
    THEN MultiValueKeywordSetValue(arg, name, value, container)
    ELSE ArgumentSetValue(arg, name, value, container)

\* Constant.parse
ConstantParse(arg, parser, stream, container) ==
    IF ConstantCleanToken(arg, stream) # NoErr
    THEN PR(ConstantCleanToken(arg, stream), parser, stream, container)
    ELSE PR(NoErr, parser, next(stream), container)

\* What a set_value leaves behind.
Bound(parser, stream, sv) == PR(sv.err, parser, stream, sv.container)

\* self.set_value(container, name, value) on what get_value returned
ArgumentBind(arg, parser, container, v) ==
    IF v.err # NoErr THEN PR(v.err, parser, v.stream, container)
    ELSE Bound(parser, v.stream, set_value(arg, v.name, v.value, container))

\* Argument.parse
ArgumentParse(arg, parser, stream, container) ==
    ArgumentBind(arg, parser, container, get_value(arg, stream))

\* Flag.parse, were it to consume the token it found outside the
\* vocabularies when it binds the default.
FlagBindConsuming(arg, parser, stream, container, c) ==
    IF c.err = NoErr
    THEN Bound(parser, next(stream), ArgumentSetValue(arg, arg.name, c.value, container))
    ELSE IF c.err = "InvalidFlag" /\ arg.default # NullV
    THEN Bound(parser, next(stream),
               ArgumentSetValue(arg, arg.name, get_default(arg), container))
    ELSE PR(c.err, parser, stream, container)

\* The tail of Flag.parse: an InvalidFlag is replaced by the default when
\* there is one, and then no token is consumed.
FlagBind(arg, parser, stream, container, c) ==
    IF c.err = NoErr
    THEN Bound(parser, next(stream), ArgumentSetValue(arg, arg.name, c.value, container))
    ELSE IF c.err = "InvalidFlag" /\ arg.default # NullV
    THEN Bound(parser, stream,
               ArgumentSetValue(arg, arg.name, get_default(arg), container))
    ELSE PR(c.err, parser, stream, container)

\* Flag.parse
FlagParse(arg, parser, stream, container) ==
    FlagBind(arg, parser, stream, container, FlagCleanToken(arg, stream))

(***************************************************************************)
(* clean_token as a probe: [err, stream], stream being the probed stream   *)
(* as the call left it (the composites probe a copy of their own).         *)
(***************************************************************************)
\* BlockTag.clean_token
BlockTagCleanToken(arg, stream) ==
    IF arg.tagname # None /\ ~eos(stream) /\ current(stream).value # arg.tagname
    THEN "TagNameError"
    ELSE NoErr

\* NodeList.clean_token and EndTag.clean_token: the stream must be exhausted.
ExhaustedCleanToken(stream) == IF ~eos(stream) THEN "TooManyArguments" ELSE NoErr

RECURSIVE clean_token(_, _), MultiArgumentCleanLoop(_, _), CleanNext(_, _, _)
RECURSIVE OneOfCleanToken(_, _)

Probe(err, stream) == [err |-> err, stream |-> stream]

AsProbe(c) == Probe(c.err, c.stream)

\* MultiArgument.clean_token, on its stream_copy: each descriptor probes the
\* copy, then one more token is skipped; a descriptor left over when the copy
\* runs out probes the exhausted copy.
MultiArgumentCleanLoop(arguments, stream_copy) ==
    IF arguments = <<>> THEN NoErr
    ELSE CleanNext(Tail(arguments), eos(stream_copy),
                   clean_token(Head(arguments), stream_copy))

CleanNext(rest_arguments, exhausted, c) ==
    IF c.err # NoErr \/ exhausted THEN c.err
    ELSE MultiArgumentCleanLoop(rest_arguments, next(c.stream))

\* OneOf.clean_token: the bare except hides every exception of an option.
OneOfCleanToken(arguments, stream) ==
    IF arguments = <<>> THEN "BaseError"
    ELSE IF clean_token(Head(arguments), copy(stream)).err = NoErr THEN NoErr
    ELSE OneOfCleanToken(Tail(arguments), stream)

clean_token(arg, stream) ==
    CASE arg.kind = "Constant" -> Probe(ConstantCleanToken(arg, stream), stream)
      [] arg.kind \in {"Argument", "MultiValueArgument"} ->
            AsProbe(ArgumentCleanToken(arg, stream))
      [] IsKeywordKind(arg) -> AsProbe(KeywordCleanToken(arg, stream))
      [] arg.kind = "Flag" -> Probe(FlagCleanToken(arg, stream).err, stream)
      [] arg.kind = "OneOf" -> Probe(OneOfCleanToken(arg.arguments, stream), stream)
      [] arg.kind \in {"Optional", "Repetition", "MultiArgument"} ->
            Probe(MultiArgumentCleanLoop(arg.arguments, copy(stream)), stream)
      [] arg.kind = "BlockTag" -> Probe(BlockTagCleanToken(arg, stream), stream)
      [] arg.kind \in {"NodeList", "Literal", "EndTag"} ->
            Probe(ExhaustedCleanToken(stream), stream)

(***************************************************************************)
(* MultiValueBase._do_parse.                                               *)
(***************************************************************************)
\* The lookahead of one iteration: "stop" when a sibling claims the tokens,
\* "go" when none does, or the exception class that escapes.
RECURSIVE ProbeOptionals(_, _, _), ProbeNext(_, _, _, _)
ProbeOptionals(nextargs, j, stream) ==
    IF j > Len(nextargs) THEN "go"
    ELSE ProbeNext(nextargs, j, stream, clean_token(nextargs[j], copy(stream)))

\* c is what nextargs[j].clean_token left: the scan goes past an Optional
\* sibling that does not match, and ends at the first other sibling.
ProbeNext(nextargs, j, stream, c) ==
    IF c.err = NoErr THEN "stop"
    ELSE IF ~Caught(c.err) THEN c.err
    ELSE IF IsOptional(nextargs[j]) THEN ProbeOptionals(nextargs, j + 1, stream)
    ELSE "go"

\* [err, stream, container, num]
Done(err, stream, container, num) ==
    [err |-> err, stream |-> stream, container |-> container, num |-> num]

RECURSIVE MultiValueLoop(_, _, _, _, _, _, _), MultiValueLook(_, _, _, _, _, _, _, _)
RECURSIVE MultiValueComma(_, _, _, _, _, _, _), MultiValueValue(_, _, _, _, _, _)
RECURSIVE MultiValueBound(_, _, _, _, _, _)

\* while not stream.eos and num_values < max_values
MultiValueLoop(arg, stream, container, nextargs, num, max_values, check_commas) ==
    IF eos(stream) \/ ~(num < max_values) THEN Done(NoErr, stream, container, num)
    ELSE MultiValueLook(arg, stream, container, nextargs, num, max_values,
                        check_commas, ProbeOptionals(nextargs, 1, stream))

MultiValueLook(arg, stream, container, nextargs, num, max_values, check_commas, look_ahead) ==
    IF look_ahead = "stop" THEN Done(NoErr, stream, container, num)
    ELSE IF look_ahead # "go" THEN Done(look_ahead, stream, container, num)
    ELSE MultiValueComma(arg, stream, container, nextargs, num, max_values,
                         IF check_commas THEN expect(stream, "comma")
                         ELSE [ok |-> TRUE, rest |-> stream])

MultiValueComma(arg, stream, container, nextargs, num, max_values, comma) ==
    IF ~comma.ok THEN Done(NoErr, stream, container, num)
    ELSE MultiValueValue(arg, container, nextargs, num, max_values,
                         get_value(arg, comma.rest))

MultiValueValue(arg, container, nextargs, num, max_values, v) ==
    IF v.err # NoErr THEN Done(v.err, v.stream, container, num)
    ELSE MultiValueBound(arg, v.stream, nextargs, num, max_values,
                         set_value(arg, v.name, v.value, container))

MultiValueBound(arg, stream, nextargs, num, max_values, sv) ==
    IF sv.err # NoErr THEN Done(sv.err, stream, sv.container, num)
    ELSE MultiValueLoop(arg, stream, sv.container, nextargs, num + 1, max_values,
                        arg.commas)

\* MultiValueBase._do_parse, were it to take stream.size for max_values
\* whatever the descriptor declares.
MultiValue_do_parse_unbounded(arg, stream, container, nextargs) ==
    IF eos(stream) THEN Done(NoErr, stream, container, 0)
    ELSE MultiValueLoop(arg, stream, container, nextargs, 0, size(stream), FALSE)

MultiValue_do_parse(arg, stream, container, nextargs) ==
    IF eos(stream) THEN Done(NoErr, stream, container, 0)
    ELSE MultiValueLoop(arg, stream, container, nextargs, 0,
                        IF arg.max_values = 0 THEN size(stream) ELSE arg.max_values,
                        FALSE)

\* self.sequence_class of the two multi-value descriptors
sequence_class(arg) ==
    IF arg.kind = "MultiValueArgument" THEN "ListValue" ELSE "DictValue"

\* self.sequence_class()
EmptySequence(arg) ==
    IF arg.kind = "MultiValueArgument" THEN ListValue(<<>>) ELSE DictValue(EmptyMap)

\* The tail of MultiValueArgument.parse / MultiValueKeywordArgument.parse,
\* r being what _do_parse returned.
MultiValueFinish(arg, parser, r) ==
    IF r.err # NoErr THEN PR(r.err, parser, r.stream, r.container)
    ELSE IF r.num # 0 THEN PR(NoErr, parser, r.stream, r.container)
    ELSE IF arg.required THEN PR("TooFewArguments", parser, r.stream, r.container)
    ELSE IF ~Truthy(arg.name) THEN PR(NoErr, parser, r.stream, r.container)
    ELSE IF arg.name \notin DOMAIN r.container.tag_kwargs
    THEN PR(NoErr, parser, r.stream, SetKw(r.container, arg.name, EmptySequence(arg)))
    ELSE IF r.container.tag_kwargs[arg.name].cls # sequence_class(arg)
    THEN PR("KeywordInUse", parser, r.stream, r.container)
    ELSE PR(NoErr, parser, r.stream, r.container)

\* MultiValueArgument.parse / MultiValueKeywordArgument.parse
MultiValueParse(arg, parser, stream, container, nextargs) ==
    MultiValueFinish(arg, parser, MultiValue_do_parse(arg, stream, container, nextargs))

(***************************************************************************)
(* The combinators.                                                        *)
(***************************************************************************)
\* One turn of the fallback loop: a child with get_default binds its
\* default; a named default is stored under its name whatever the container
\* holds there.
InstallDefault(option, container) ==
    IF ~HasGetDefault(option) THEN container
    ELSE IF option.name = None THEN AppendArg(container, get_default(option))
    ELSE SetKw(container, option.name, get_default(option))

\* The fallback loop of Optional.parse (and of Repetition.parse on an empty
\* result).
RECURSIVE InstallDefaults(_, _)
InstallDefaults(arguments, container) ==
    IF arguments = <<>> THEN container
    ELSE InstallDefaults(Tail(arguments), InstallDefault(Head(arguments), container))

HasDefaults(arguments) == \E i \in 1..Len(arguments) : HasGetDefault(arguments[i])

(***************************************************************************)
(* The document parser (django's Parser) as NodeList, Literal, BlockTag    *)
(* and EndTag use it.  parser.tokens holds the document tokens still to    *)
(* come: a token has a token_type and its contents, the contents being the *)
(* words split_contents would return.  No document of the model holds a    *)
(* variable or comment token, and no tag is registered with the parser.    *)
(***************************************************************************)
DocToken(token_type, contents) == [token_type |-> token_type, contents |-> contents]

TOKEN_TEXT == "text"

TOKEN_BLOCK == "block"

next_token(parser) == [parser EXCEPT !.tokens = Tail(@)]

\* Lexer.tokenize of the contents of a block token: its words as name tokens.
tokenize_contents(contents) == [k \in 1..Len(contents) |-> NameTok(contents[k])]

\* Parser.parse(parse_until): text becomes nodes up to a block token named
\* in parse_until, which stays unread; any other block token is an invalid
\* block tag, and a document that ends first is an unclosed tag.
\* [err, parser, nodes]
RECURSIVE ParserParse(_, _, _)
ParserParse(parser, parse_until, nodes) ==
    IF parser.tokens = <<>>
    THEN [err |-> IF parse_until # <<>> THEN "TemplateSyntaxError" ELSE NoErr,
          parser |-> parser, nodes |-> nodes]
    ELSE IF Head(parser.tokens).token_type = TOKEN_TEXT
    THEN ParserParse(next_token(parser), parse_until,
                     nodes \o Head(parser.tokens).contents)
    ELSE IF InSeq(Head(Head(parser.tokens).contents), parse_until)
    THEN [err |-> NoErr, parser |-> parser, nodes |-> nodes]
    ELSE [err |-> "TemplateSyntaxError", parser |-> next_token(parser), nodes |-> nodes]

\* The loop of BlockTag.parse and EndTag.parse: parser.next_token() until a
\* block token, text being passed over; next_token on a document that has
\* ended is an IndexError.  [err, parser, contents]
RECURSIVE NextBlock(_)
NextBlock(parser) ==
    IF parser.tokens = <<>>
    THEN [err |-> "IndexError", parser |-> parser, contents |-> <<>>]
    ELSE IF Head(parser.tokens).token_type = TOKEN_BLOCK
    THEN [err |-> NoErr, parser |-> next_token(parser),
          contents |-> Head(parser.tokens).contents]
    ELSE NextBlock(next_token(parser))

\* The binding at the end of NodeList.parse: the name is assigned without a
\* KeywordInUse check, and the list joins tag_nodelists.
NodeListBind(arg, stream, container, at, p) ==
    IF p.err # NoErr THEN PR(p.err, p.parser, stream, container)
    ELSE LET nodelist == NodeListV(p.nodes, at)
             bound == IF arg.name = None
                      THEN AppendArg(container, StaticValue(nodelist))
                      ELSE SetKw(container, arg.name, StaticValue(nodelist))
         IN  PR(NoErr, p.parser, stream,
                [bound EXCEPT !.tag_nodelists = Append(@, nodelist)])

\* NodeList.parse
NodeListParse(arg, parser, stream, container) ==
    IF ExhaustedCleanToken(stream) # NoErr
    THEN PR(ExhaustedCleanToken(stream), parser, stream, container)
    ELSE NodeListBind(arg, stream, container, Len(parser.tokens) + 1,
                      ParserParse(parser, arg.endtags, <<>>))

\* token.contents as one string: the words with a blank between them.
RECURSIVE JoinWords(_)
JoinWords(contents) ==
    IF Len(contents) = 1 THEN Head(contents)
    ELSE Head(contents) \o <<" ">> \o JoinWords(Tail(contents))

\* The text Literal.parse rebuilds for one token.
Rebuilt(token) ==
    IF token.token_type = TOKEN_BLOCK
    THEN <<"{", "%", " ">> \o JoinWords(token.contents) \o <<" ", "%", "}">>
    ELSE JoinWords(token.contents)

\* Literal._do_parse: the tokens up to the end-tag that closes the literal;
\* a document that ends first is an unclosed tag.  [err, parser, literal]
RECURSIVE Literal_do_parse(_, _, _, _)
Literal_do_parse(arg, parser, depth, literal) ==
    IF parser.tokens = <<>>
    THEN [err |-> "TemplateSyntaxError", parser |-> parser, literal |-> literal]
    ELSE LET token == Head(parser.tokens)
             depth1 == IF token.token_type # TOKEN_BLOCK THEN depth
                       ELSE IF JoinWords(token.contents) = arg.name THEN depth + 1
                       ELSE IF InSeq(JoinWords(token.contents), arg.endtags)
                       THEN depth - 1
                       ELSE depth
         IN  IF depth1 < 0
             THEN [err |-> NoErr, parser |-> parser, literal |-> literal]
             ELSE Literal_do_parse(arg, next_token(parser), depth1,
                                   literal \o Rebuilt(token))

LiteralBind(arg, stream, container, p) ==
    IF p.err # NoErr THEN PR(p.err, p.parser, stream, container)
    ELSE IF arg.name = None
    THEN PR(NoErr, p.parser, stream, AppendArg(container, StaticValue(StrV(p.literal))))
    ELSE PR(NoErr, p.parser, stream,
            SetKw(container, arg.name, StaticValue(StrV(p.literal))))

\* Literal.parse
LiteralParse(arg, parser, stream, container) ==
    IF ExhaustedCleanToken(stream) # NoErr
    THEN PR(ExhaustedCleanToken(stream), parser, stream, container)
    ELSE LiteralBind(arg, stream, container, Literal_do_parse(arg, parser, 0, <<>>))

\* EndTag.parse, b being the block token its loop found.
EndTagFound(arg, stream, container, b) ==
    IF b.err # NoErr THEN PR(b.err, b.parser, stream, container)
    ELSE IF Head(b.contents) # arg.tagname
    THEN PR("ArgumentRequiredError", b.parser, stream, container)
    ELSE IF Len(b.contents) # 1
    THEN PR("TooManyArguments", b.parser, stream, container)
    ELSE PR(NoErr, b.parser, stream, container)

EndTagParse(arg, parser, stream, container) ==
    EndTagFound(arg, stream, container, NextBlock(parser))

RECURSIVE BlockTagParse(_, _, _, _, _), BlockTagRead(_, _, _, _, _)
RECURSIVE BlockTagBody(_, _, _, _, _)
RECURSIVE parse(_, _, _, _, _), MultiArgument_do_parse(_, _, _, _, _)
RECURSIVE DoParseNext(_, _, _), OptionalParse(_, _, _, _, _)
RECURSIVE OptionalTried(_, _, _, _, _, _), Attempt(_, _, _, _), AttemptOne(_, _, _, _)
RECURSIVE OneOfLoop(_, _, _, _, _), OneOfTried(_, _, _, _, _, _)
RECURSIVE RepetitionLoop(_, _, _, _, _, _, _, _), RepetitionParse(_, _, _, _, _)
RECURSIVE RepetitionTried(_, _, _, _, _, _, _, _, _)
RECURSIVE RepetitionReal(_, _, _, _, _, _, _, _, _, _)

\* MultiArgument._do_parse: the children in order, each given the siblings
\* still to come (the last one the nextargs of the composite itself).
MultiArgument_do_parse(arguments, parser, stream, container, nextargs) ==
    IF arguments = <<>> THEN PR(NoErr, parser, stream, container)
    ELSE DoParseNext(Tail(arguments), nextargs,
                     parse(Head(arguments), parser, stream, container,
                           IF Len(arguments) = 1 THEN nextargs ELSE Tail(arguments)))

\* r is what the child's parse left: its exception, or the objects the rest
\* of the children go on with.
DoParseNext(rest_arguments, nextargs, r) ==
    IF r.err # NoErr THEN r
    ELSE MultiArgument_do_parse(rest_arguments, r.parser, r.stream, r.container,
                                nextargs)

\* The speculative attempt of Optional.parse and of a Repetition iteration.
Attempt(arguments, parser_copy, stream_copy, nextargs) ==
    MultiArgument_do_parse(arguments, parser_copy, stream_copy, Container, nextargs)

\* Optional.parse
OptionalParse(arg, parser, stream, container, nextargs) ==
    OptionalTried(arg, parser, stream, container, nextargs,
                  Attempt(arg.arguments, ParserCopy(parser), copy(stream), nextargs))

\* try is what the attempt on the copies left.
OptionalTried(arg, parser, stream, container, nextargs, try) ==
    IF try.err = NoErr
    THEN MultiArgument_do_parse(arg.arguments, parser, stream, container, nextargs)
    ELSE IF Caught(try.err)
    THEN PR(NoErr, parser, stream, InstallDefaults(arg.arguments, container))
    ELSE PR(try.err, parser, stream, container)

\* The speculative attempt of one OneOf alternative.
AttemptOne(option, parser_copy, stream_copy, nextargs) ==
    parse(option, parser_copy, stream_copy, Container, nextargs)

\* OneOf.parse
OneOfLoop(arguments, parser, stream, container, nextargs) ==
    IF arguments = <<>> THEN PR("ArgumentRequiredError", parser, stream, container)
    ELSE OneOfTried(arguments, parser, stream, container, nextargs,
                    AttemptOne(Head(arguments), ParserCopy(parser), copy(stream),
                               nextargs))

OneOfTried(arguments, parser, stream, container, nextargs, try) ==
    IF try.err = NoErr
    THEN parse(Head(arguments), parser, stream, container, nextargs)
    ELSE IF Caught(try.err)
    THEN OneOfLoop(Tail(arguments), parser, stream, container, nextargs)
    ELSE PR(try.err, parser, stream, container)

\* The repetitions a Repetition binds: the default repetition when none
\* matched and a child has a default.
WithDefaultRepetition(arg, reps) ==
    IF reps = <<>> /\ HasDefaults(arg.arguments)
    THEN <<RepContainer(InstallDefaults(arg.arguments, Container))>>
    ELSE reps

\* The tail of Repetition.parse, after the loop: the min_reps and max_reps
\* checks (the latter raises through the undefined name `tokens`), the
\* default repetition, and the binding of the sequence.
\* The tail of Repetition.parse, were it to leave out the min_reps check.
RepetitionFinishAnyCount(arg, parser, stream, container, reps) ==
    IF arg.max_reps # 0 /\ Len(reps) > arg.max_reps
    THEN PR("NameError", parser, stream, container)
    ELSE IF arg.name = None
    THEN PR(NoErr, parser, stream,
            AppendArg(container, ListValue(WithDefaultRepetition(arg, reps))))
    ELSE PR(NoErr, parser, stream,
            SetKw(container, arg.name, ListValue(WithDefaultRepetition(arg, reps))))

RepetitionFinish(arg, parser, stream, container, reps) ==
    IF Len(reps) < arg.min_reps
    THEN PR("ArgumentRequiredError", parser, stream, container)
    ELSE IF arg.max_reps # 0 /\ Len(reps) > arg.max_reps
    THEN PR("NameError", parser, stream, container)
    ELSE IF arg.name = None
    THEN PR(NoErr, parser, stream,
            AppendArg(container, ListValue(WithDefaultRepetition(arg, reps))))
    ELSE PR(NoErr, parser, stream,
            SetKw(container, arg.name, ListValue(WithDefaultRepetition(arg, reps))))

\* One iteration: the attempt on the copies, which the loop made once.
RepetitionLoop(arg, parser_copy, stream_copy, parser, stream, container, reps, nextargs) ==
    RepetitionTried(arg, parser_copy, stream_copy, parser, stream, container, reps,
                    nextargs, Attempt(arg.arguments, parser_copy, stream_copy, nextargs))

RepetitionTried(arg, parser_copy, stream_copy, parser, stream, container, reps, nextargs, try) ==
    IF try.err = NoErr
    THEN RepetitionReal(arg, parser_copy, stream_copy, parser, stream, container, reps,
                        nextargs, try,
                        MultiArgument_do_parse(arg.arguments, parser, stream,
                                               Container, nextargs))
    ELSE IF Caught(try.err)
    THEN RepetitionFinish(arg, parser, stream, container, reps)
    ELSE PR(try.err, parser, stream, container)

\* real is the re-execution on the live objects with a fresh bag.  One
\* successful iteration that consumes nothing repeats for ever: the copies
\* and the live objects are as they were and every bag is fresh.
RepetitionReal(arg, parser_copy, stream_copy, parser, stream, container, reps, nextargs, try, real) ==
    IF real.err # NoErr
    THEN PR(real.err, real.parser, real.stream, container)
    ELSE IF try.stream = stream_copy /\ try.parser = parser_copy
            /\ real.stream = stream /\ real.parser = parser
    THEN PR(Diverges, parser, stream, container)
    ELSE RepetitionLoop(arg, try.parser, try.stream, real.parser, real.stream,
                        [container EXCEPT !.tag_nodelists =
                             @ \o real.container.tag_nodelists],
                        Append(reps, RepContainer(real.container)), nextargs)

RepetitionParse(arg, parser, stream, container, nextargs) ==
    RepetitionLoop(arg, ParserCopy(parser), copy(stream), parser, stream, container,
                   <<>>, nextargs)

\* nextargs=None reaches MultiValueBase._do_parse as the empty list.
parse(arg, parser, stream, container, nextargs) ==
    CASE arg.kind = "Constant" -> ConstantParse(arg, parser, stream, container)
      [] arg.kind \in {"Argument", "KeywordArgument"} ->
            ArgumentParse(arg, parser, stream, container)
      [] arg.kind \in {"MultiValueArgument", "MultiValueKeywordArgument"} ->
            MultiValueParse(arg, parser, stream, container, nextargs)
      [] arg.kind = "Flag" -> FlagParse(arg, parser, stream, container)
      [] arg.kind = "Optional" -> OptionalParse(arg, parser, stream, container, nextargs)
      [] arg.kind = "OneOf" ->
            OneOfLoop(arg.arguments, parser, stream, container, nextargs)
      [] arg.kind = "Repetition" ->
            RepetitionParse(arg, parser, stream, container, nextargs)
      [] arg.kind = "MultiArgument" ->
            MultiArgument_do_parse(arg.arguments, parser, stream, container, nextargs)
      [] arg.kind = "NodeList" -> NodeListParse(arg, parser, stream, container)
      [] arg.kind = "Literal" -> LiteralParse(arg, parser, stream, container)
      [] arg.kind = "BlockTag" -> BlockTagParse(arg, parser, stream, container, nextargs)
      [] arg.kind = "EndTag" -> EndTagParse(arg, parser, stream, container)

(***************************************************************************)
(* BlockTag.parse of the root descriptor and Options.parse.  The stream of *)
(* an invocation starts with the tag name; no token of the model is a dot, *)
(* so BlockTag.clean_token compares the current token with the tag name.   *)
(***************************************************************************)
\* The end of BlockTag.parse: tokens left over are too many.
BlockTagFinish(r) ==
    IF r.err # NoErr THEN r
    ELSE IF ~eos(r.stream) THEN PR("TooManyArguments", r.parser, r.stream, r.container)
    ELSE r

\* BlockTag.parse from the tag-name check on.
BlockTagBody(arg, parser, stream, container, nextargs) ==
    IF arg.tagname # None /\ BlockTagCleanToken(arg, stream) # NoErr
    THEN PR(BlockTagCleanToken(arg, stream), parser, stream, container)
    ELSE BlockTagFinish(MultiArgument_do_parse(arg.arguments, parser,
                                               IF arg.tagname # None THEN next(stream)
                                               ELSE stream,
                                               container, nextargs))

\* The caller's stream object is not the one BlockTag.parse went on with.
KeepStream(stream, r) == [r EXCEPT !.stream = stream]

\* b is the block token the loop found: its contents are tokenized into a
\* stream of the call's own.
BlockTagRead(arg, stream, container, nextargs, b) ==
    IF b.err # NoErr THEN PR(b.err, b.parser, stream, container)
    ELSE KeepStream(stream, BlockTagBody(arg, b.parser, tokenize_contents(b.contents),
                                         container, nextargs))

\* BlockTag.parse: on an exhausted stream the block is read from the document.
BlockTagParse(arg, parser, stream, container, nextargs) ==
    IF eos(stream) THEN BlockTagRead(arg, stream, container, nextargs, NextBlock(parser))
    ELSE BlockTagBody(arg, parser, stream, container, nextargs)

\* Lexer.tokenize of "<tagname> <arguments>": the tag name, then the tokens.
tokenize(tagname, tokens) == <<NameTok(tagname)>> \o tokens

\* Options.parse, for a tag compiled from `arguments`.
Options_parse(arguments, tagname, parser, tokens) ==
    BlockTagParse(Options_initialize(arguments, tagname).parser, parser,
                  tokenize(tagname, tokens), Container, <<>>)

(***************************************************************************)
(* Resolution (values.py, nodes.py, Tag.render).  A resolve returns        *)
(* [err, value]; err is "" or the exception class that escapes.            *)
(***************************************************************************)
Resolved(value) == [err |-> NoErr, value |-> value]

Raised(err) == [err |-> err, value |-> NoneV]

\* bool is a subclass of int
IsNum(v) == v.t \in {"int", "bool"}

Num(v) == IF v.t = "bool" THEN (IF v.b THEN 1 ELSE 0) ELSE v.i

\* resolve_lookup on a context that is a plain mapping of names
resolve_lookup(key, store) ==
    IF key \in DOMAIN store THEN Resolved(store[key])
    ELSE Raised("VariableDoesNotExist")

\* Add.resolve on the resolved operands: + of two numbers or two strings
AddResolved(left, right) ==
    IF left.err # NoErr THEN left
    ELSE IF right.err # NoErr THEN right
    ELSE IF IsNum(left.value) /\ IsNum(right.value)
    THEN Resolved(IntV(Num(left.value) + Num(right.value)))
    ELSE IF left.value.t = "str" /\ right.value.t = "str"
    THEN Resolved(StrV(left.value.s \o right.value.s))
    ELSE Raised("TypeError")

\* Pos.resolve / Neg.resolve on the resolved operand
SignResolved(kind, operand) ==
    IF operand.err # NoErr THEN operand
    ELSE IF ~IsNum(operand.value) THEN Raised("TypeError")
    ELSE IF kind = "Pos" THEN Resolved(IntV(Num(operand.value)))
    ELSE Resolved(IntV(0 - Num(operand.value)))

\* Expr.resolve_safe
resolve_safe(r) == IF r.err = "VariableDoesNotExist" THEN Resolved(NoneV) ELSE r

\* Python's // and % of two integers: the quotient is rounded down.
FloorQuotient(a, b) ==
    IF b > 0 THEN a \div b ELSE (0 - a) \div (0 - b)

Remainder(a, b) == a - b * FloorQuotient(a, b)

RECURSIVE Repeated(_, _)
Repeated(s, n) == IF n <= 0 THEN <<>> ELSE s \o Repeated(s, n - 1)

\* left * right: the product of two numbers, or a string so many times
MulResolved(left, right) ==
    IF left.err # NoErr THEN left
    ELSE IF right.err # NoErr THEN right
    ELSE IF IsNum(left.value) /\ IsNum(right.value)
    THEN Resolved(IntV(Num(left.value) * Num(right.value)))
    ELSE IF left.value.t = "str" /\ IsNum(right.value)
    THEN Resolved(StrV(Repeated(left.value.s, Num(right.value))))
    ELSE IF IsNum(left.value) /\ right.value.t = "str"
    THEN Resolved(StrV(Repeated(right.value.s, Num(left.value))))
    ELSE Raised("TypeError")

\* left - right, left / right, left // right, left % right.  The module has
\* no division import, so / of two integers is the floor division; % of a
\* string that holds no conversion and one scalar is a TypeError.
ArithResolved(kind, left, right) ==
    IF left.err # NoErr THEN left
    ELSE IF right.err # NoErr THEN right
    ELSE IF ~(IsNum(left.value) /\ IsNum(right.value)) THEN Raised("TypeError")
    ELSE IF kind = "Sub" THEN Resolved(IntV(Num(left.value) - Num(right.value)))
    ELSE IF Num(right.value) = 0 THEN Raised("ZeroDivisionError")
    ELSE IF kind = "Mod"
    THEN Resolved(IntV(Remainder(Num(left.value), Num(right.value))))
    ELSE Resolved(IntV(FloorQuotient(Num(left.value), Num(right.value))))

\* The truth value of a Python object.
IsTrue(v) ==
    IF v.t = "none" THEN FALSE
    ELSE IF v.t = "bool" THEN v.b
    ELSE IF v.t = "int" THEN v.i # 0
    ELSE IF v.t = "str" THEN v.s # <<>>
    ELSE TRUE

\* a == b
Equal(a, b) == IF IsNum(a) /\ IsNum(b) THEN Num(a) = Num(b) ELSE a = b

\* a in b
Contains(b, a) ==
    \E i \in 1..Len(b) + 1 : i + Len(a) - 1 <= Len(b) /\ SubSeq(b, i, i + Len(a) - 1) = a

\* _cmpop_to_func[op](curr_expr, expr) for the operators a vocabulary of
\* the model can write: eq, ne, in, notin.
Compared(op, a, b) ==
    IF op = "eq" THEN Resolved(BoolV(Equal(a, b)))
    ELSE IF op = "ne" THEN Resolved(BoolV(~Equal(a, b)))
    ELSE IF ~(a.t = "str" /\ b.t = "str") THEN Raised("TypeError")
    ELSE Resolved(BoolV(IF op = "in" THEN Contains(b.s, a.s) ELSE ~Contains(b.s, a.s)))

OpResolved(curr_expr, op, expr) ==
    IF expr.err # NoErr THEN expr ELSE Compared(op, curr_expr.value, expr.value)

\* CondExpr.resolve on its three resolved fields: `expr1 if test else expr2`
CondResolved(tst, expr1, expr2) ==
    IF tst.err # NoErr THEN tst
    ELSE IF expr1.err # NoErr THEN expr1
    ELSE IF expr2.err # NoErr THEN expr2
    ELSE IF IsTrue(tst.value) THEN expr1 ELSE expr2

\* Node.resolve for the nodes the token vocabularies can build.  The expr2
\* of a CondExpr without else is None, which has no resolve.
RECURSIVE ResolveNode(_, _), ResolveOps(_, _, _)
ResolveNode(node, context) ==
    CASE node.node = "Name" ->
           IF node.name \in {<<"n","o","n","e">>, <<"N","o","n","e">>} THEN Resolved(NoneV)
           ELSE IF node.name \in {<<"t","r","u","e">>, <<"T","r","u","e">>}
           THEN Resolved(BoolV(TRUE))
           ELSE IF node.name \in {<<"f","a","l","s","e">>, <<"F","a","l","s","e">>}
           THEN Resolved(BoolV(FALSE))
           ELSE resolve_lookup(node.name, context)
      [] node.node = "Const" -> Resolved(node.value)
      [] node.node = "None" -> Raised("AttributeError")
      [] node.node = "Add" ->
           AddResolved(ResolveNode(node.left, context), ResolveNode(node.right, context))
      [] node.node = "Mul" ->
           MulResolved(ResolveNode(node.left, context), ResolveNode(node.right, context))
      [] node.node \in {"Sub", "Div", "FloorDiv", "Mod"} ->
           ArithResolved(node.node, ResolveNode(node.left, context),
                         ResolveNode(node.right, context))
      [] node.node \in {"Pos", "Neg"} ->
           SignResolved(node.node, ResolveNode(node.operand, context))
      [] node.node = "Compare" ->
           ResolveOps(resolve_safe(ResolveNode(node.expr, context)), node.ops, context)
      [] node.node = "CondExpr" ->
           CondResolved(ResolveNode(node.test, context), ResolveNode(node.expr1, context),
                        ResolveNode(node.expr2, context))

\* Compare.resolve: the operands are resolved one after the other, each
\* with resolve_safe, and compared with what the comparisons so far gave.
ResolveOps(curr_expr, ops, context) ==
    IF curr_expr.err # NoErr \/ ops = <<>> THEN curr_expr
    ELSE ResolveOps(OpResolved(curr_expr, Head(ops).op,
                               resolve_safe(ResolveNode(Head(ops).expr, context))),
                    Tail(ops), context)

\* StringValue.clean: the empty string of a looked-up variable becomes None.
clean(var, value) ==
    IF value = StrV(<<>>) /\ ~("cls" \in DOMAIN var /\ var.cls = "StaticValue")
    THEN NoneV
    ELSE value

\* StringValue.resolve on what self.var resolved to: a variable that does
\* not exist resolves to None.
CleanResolved(var, resolved) ==
    IF resolved.err = "VariableDoesNotExist" THEN Resolved(NoneV)
    ELSE IF resolved.err # NoErr THEN resolved
    ELSE Resolved(clean(var, resolved.value))

\* The resolved items put together; the first exception escapes.
ConsResolved(first, rest) ==
    IF first.err # NoErr THEN first
    ELSE IF rest.err # NoErr THEN rest
    ELSE Resolved(<<first.value>> \o rest.value)

PutResolved(key, first, rest) ==
    IF first.err # NoErr THEN first
    ELSE IF rest.err # NoErr THEN rest
    ELSE Resolved(DictPut(rest.value, key, first.value))

AsList(resolved) ==
    IF resolved.err # NoErr THEN resolved
    ELSE Resolved([t |-> "list", items |-> resolved.value])

AsDict(resolved) ==
    IF resolved.err # NoErr THEN resolved
    ELSE Resolved([t |-> "dict", items |-> resolved.value])

\* RepContainer.resolve: the pair of the resolved positionals and keywords
AsRep(args, kwargs) ==
    IF args.err # NoErr THEN args
    ELSE IF kwargs.err # NoErr THEN kwargs
    ELSE Resolved([t |-> "rep", args |-> args.value, kwargs |-> kwargs.value])

RECURSIVE resolve(_, _), ResolveList(_, _), ResolveDict(_, _, _)
RECURSIVE ResolveEntry(_, _, _, _)

\* [item.resolve(context) for item in self]
ResolveList(items, context) ==
    IF items = <<>> THEN Resolved(<<>>)
    ELSE ConsResolved(resolve(Head(items), context), ResolveList(Tail(items), context))

\* [(key, self[key].resolve(context)) for key in self]
ResolveDict(items, keys, context) ==
    IF keys = {} THEN Resolved(EmptyMap)
    ELSE ResolveEntry(items, keys, context, CHOOSE k \in keys : TRUE)

ResolveEntry(items, keys, context, key) ==
    PutResolved(key, resolve(items[key], context),
                ResolveDict(items, keys \ {key}, context))

\* The resolve method of a bound value, by class.
resolve(v, context) ==
    CASE v.cls = "StaticValue" -> Resolved(v.value)
      [] v.cls = "StringValue" ->
           CleanResolved(v.var, IF "cls" \in DOMAIN v.var THEN resolve(v.var, context)
                                ELSE ResolveNode(v.var, context))
      [] v.cls = "ListValue" -> AsList(ResolveList(v.items, context))
      [] v.cls = "DictValue" -> AsDict(ResolveDict(v.items, DOMAIN v.items, context))
      [] v.cls = "RepContainer" ->
           AsRep(ResolveList(v.tag_args, context),
                 ResolveDict(v.tag_kwargs, DOMAIN v.tag_kwargs, context))

\* What Tag.render hands to render_tag, or the exception that escapes.
Rendered(args, kwargs) ==
    IF args.err # NoErr THEN [err |-> args.err, args |-> <<>>, kwargs |-> EmptyMap]
    ELSE IF kwargs.err # NoErr
    THEN [err |-> kwargs.err, args |-> <<>>, kwargs |-> EmptyMap]
    ELSE [err |-> NoErr, args |-> args.value, kwargs |-> kwargs.value]

\* Tag.render: the positional and the named values resolved against the
\* context.
render(container, context) ==
    Rendered(ResolveList(container.tag_args, context),
             ResolveDict(container.tag_kwargs, DOMAIN container.tag_kwargs, context))

(***************************************************************************)
(* The tags and the invocations of the model.                              *)
(***************************************************************************)
TagName == <<"t">>

s_a == <<"a">>

s_b == <<"b">>

s_as == <<"a", "s">>

s_on == <<"o", "n">>

s_plus == <<"+">>

\* The tokens Lexer.tokenize can hand to an invocation.
Vocab == {NameTok(s_a), NameTok(s_b), NameTok(s_as), NameTok(s_on), Token("add", s_plus)}

Inputs == SeqsUpTo(Vocab, MaxLen)

\* Declared defaults: a plain word, and a word written with its quotes.
d_plain == StrV(<<"d">>)

d_quoted == StrV(<<"'", "d", "'">>)

d_world == StrV(<<"w", "o", "r", "l", "d">>)

Required(name) == Argument(name, NoneV, TRUE, TRUE)

NotRequired(name, default) == Argument(name, default, FALSE, TRUE)

\* The children of the repetitions: a breakpoint and its value.
AsValue == <<Str(s_as), Required(<<"v">>)>>

FlagOn(default) == Flag(<<"f">>, default, {s_on}, {}, FALSE)

\* max_values of the multi-value tags of the model.
K == 2

MultiValueOnly == <<MultiValueArgument(<<"m">>, TRUE, K, FALSE)>>

MultiValueThenBreakpoint ==
    <<MultiValueArgument(<<"m">>, FALSE, K, FALSE), Str(s_as), Required(<<"v">>)>>

\* Repetition('r', Argument('v')): every value token is one repetition.
RepeatedValue == <<Repetition(<<"r">>, <<Required(<<"v">>)>>, 0, 0)>>

\* Repetition('r', 'as', Argument('v'), min_reps=1)
AtLeastOnce == <<Repetition(<<"r">>, AsValue, 1, 0)>>

\* Repetition('r', Argument('v'), max_reps=1)
AtMostOnce == <<Repetition(<<"r">>, <<Required(<<"v">>)>>, 0, 1)>>

\* The Options(...) declarations of the tags.
Tags ==
    { <<Required(<<"x">>)>>,
      <<Required(<<"x">>), Required(<<"y">>)>>,
      <<Required(<<"x">>), Required(<<"y">>), Required(<<"z">>)>>,
      <<Required(<<"x">>), Required(<<"x">>)>>,
      <<Required(<<"x">>), NotRequired(<<"x">>, d_plain)>>,
      <<NotRequired(<<"v">>, d_plain)>>,
      <<NotRequired(<<"v">>, d_quoted)>>,
      <<Str(s_as), NotRequired(<<"v">>, d_plain)>>,
      <<NotRequired(<<"n">>, d_world), Str(s_as),
        Argument(<<"v">>, NoneV, FALSE, FALSE)>>,
      <<Str(s_as), FlagOn(BoolV(FALSE))>>,
      <<Optional(<<Required(<<"x">>), Str(s_as)>>)>>,
      <<Required(<<"x">>), Optional(<<Required(<<"y">>), Required(<<"x">>)>>)>>,
      <<OneOf(<<Str(s_as), Required(<<"v">>)>>)>>,
      <<OneOf(<<Str(s_as), NotRequired(<<"v">>, d_plain)>>)>>,
      <<OneOf(<<FlagOn(NullV), Required(<<"v">>)>>)>>,
      MultiValueOnly,
      MultiValueThenBreakpoint,
      <<Required(<<"m">>), MultiValueArgument(<<"m">>, FALSE, 0, FALSE)>>,
      <<MultiValueArgument(<<"m">>, TRUE, 1, FALSE), Str(s_as),
        MultiValueArgument(<<"m">>, TRUE, 0, FALSE)>>,
      <<Repetition(<<"r">>, AsValue, 0, 0)>>,
      AtLeastOnce,
      <<Required(<<"r">>), Repetition(<<"r">>, AsValue, 0, 0)>>,
      <<Repetition(<<"r">>, <<FlagOn(BoolV(FALSE))>>, 0, 0)>>,
      <<Repetition(<<"r">>, <<MultiValueArgument(<<"m">>, FALSE, 0, FALSE)>>, 0, 0)>>,
      <<Repetition(<<"r">>, <<Optional(<<Required(<<"m">>)>>)>>, 0, 0)>>,
      RepeatedValue,
      AtMostOnce,
      <<Repetition(<<"r">>, <<Required(<<"v">>), Str(s_as)>>, 0, 0)>> }

\* The context a tag is rendered against.
Context == (s_a :> StrV(<<"A">>)) @@ (s_b :> StrV(<<"B">>))

(***************************************************************************)
(* The state of one tag: its Options object and one invocation of the tag  *)
(* function.  threads and expr_parser belong to the concurrent             *)
(* specification further down.                                             *)
(***************************************************************************)
VARIABLES
    options,        \* the Options object: initialized, arguments, parser
    tokens,         \* the argument tokens of the invocation
    pc,             \* where the invocation stands
    parser,         \* the document parser handed to the tag function
    stream,         \* the live token stream
    container,      \* the live bag of the tag
    arguments,      \* the deque of BlockTag._do_parse: children still to parse
    attempt,        \* the copies of a composite as its last attempt left them
    alternatives,   \* the deque of OneOf.parse
    reps,           \* the repetitions a Repetition has committed
    err,            \* the exception class the invocation raised
    rendered,       \* what each render call handed to render_tag
    threads,
    expr_parser,
    lexer,          \* Lexer.tokeniter at work on one source string
    heap,           \* two TokenStream objects and the deques they hold
    expression      \* an expression, as a token stream and as a node

\* The lexer, the token streams and the expression of the specifications that
\* exercise them alone are at rest in the others.
AtRest == [pc |-> "rest"]

Elsewhere == lexer = AtRest /\ heap = AtRest /\ expression = AtRest

vars == <<options, tokens, pc, parser, stream, container, arguments, attempt,
          alternatives, reps, err, rendered, threads, expr_parser, lexer, heap, expression>>

\* How many times the tag is rendered.
MaxRenders == 2

DjangoParser == [tokens |-> <<>>]

NoAttempt == PR(NoErr, DjangoParser, <<>>, Container)

Init ==
    /\ options \in {[initialized |-> FALSE, arguments |-> t, parser |-> NoArg] : t \in Tags}
    /\ tokens \in Inputs
    /\ pc = "constructed"
    /\ parser = DjangoParser
    /\ stream = <<>>
    /\ container = Container
    /\ arguments = <<>>
    /\ attempt = NoAttempt
    /\ alternatives = <<>>
    /\ reps = <<>>
    /\ err = NoErr
    /\ rendered = <<>>
    /\ threads = <<>>
    /\ expr_parser = <<>>
    /\ Elsewhere

\* Options.initialize: the structured list with the tag name in front, and
\* the root BlockTag built from it.
Initialized(root) ==
    [initialized |-> TRUE, arguments |-> <<Str(TagName)>> \o root.arguments,
     parser |-> root]

\* Options.initialize has returned, or has raised and left the Options
\* uninitialized.
InitializeReturns(r) ==
    IF r.err = NoErr
    THEN /\ options' = Initialized(r.parser)
         /\ pc' = "initialized"
         /\ err' = err
    ELSE /\ options' = options
         /\ pc' = "misconfigured"
         /\ err' = r.err

Initialize ==
    /\ pc = "constructed"
    /\ ~options.initialized
    /\ InitializeReturns(Options_initialize(options.arguments, TagName))
    /\ UNCHANGED <<tokens, parser, stream, container, arguments, attempt, alternatives,
                   reps, rendered, threads, expr_parser, lexer, heap, expression>>

\* The siblings handed to the child at the head of the deque.
nextargs_arguments == IF Len(arguments) = 1 THEN <<>> ELSE Tail(arguments)

current_arg == Head(arguments)

\* What a call on the live objects leaves behind: the next child when it
\* returned, the raised state when it did not.
Returns(r, rest_arguments) ==
    /\ stream' = r.stream
    /\ container' = r.container
    /\ parser' = r.parser
    /\ IF r.err = NoErr
       THEN /\ pc' = "parsing"
            /\ arguments' = rest_arguments
            /\ err' = err
       ELSE /\ pc' = IF r.err = Diverges THEN "diverged" ELSE "raised"
            /\ arguments' = arguments
            /\ err' = r.err

\* The tag function of Tag.as_tag up to the first child: a fresh bag,
\* Options.parse tokenizes, BlockTag.parse checks and skips the tag name.
TagFunction ==
    /\ pc = "initialized"
    /\ LET stream0 == tokenize(TagName, tokens)
           name_err == BlockTagCleanToken(options.parser, stream0)
       IN  Returns(PR(name_err, parser,
                      IF name_err = NoErr THEN next(stream0) ELSE stream0, Container),
                   options.parser.arguments)
    /\ UNCHANGED <<options, tokens, attempt, alternatives, reps, rendered, threads,
                   expr_parser, lexer, heap, expression>>

LeafKinds ==
    {"Constant", "Argument", "KeywordArgument", "MultiValueArgument",
     "MultiValueKeywordArgument", "Flag", "MultiArgument", "NodeList", "Literal",
     "BlockTag", "EndTag"}

\* current_arg.parse for a child that is not a speculating composite.
ParseArgument ==
    /\ pc = "parsing"
    /\ arguments # <<>>
    /\ current_arg.kind \in LeafKinds
    /\ Returns(parse(current_arg, parser, stream, container, nextargs_arguments),
               Tail(arguments))
    /\ UNCHANGED <<options, tokens, attempt, alternatives, reps, rendered, threads,
                   expr_parser, lexer, heap, expression>>

\* What a failed or abandoned composite leaves behind.
Raise(e) ==
    /\ pc' = IF e = Diverges THEN "diverged" ELSE "raised"
    /\ err' = e
    /\ UNCHANGED <<stream, container, parser, arguments>>

(***************************************************************************)
(* Optional.parse in its steps: the attempt on the copies, then the        *)
(* re-execution on the live objects, the defaults, or the re-raise.        *)
(***************************************************************************)
OptionalAttempt ==
    /\ pc = "parsing"
    /\ arguments # <<>>
    /\ current_arg.kind = "Optional"
    /\ attempt' = Attempt(current_arg.arguments, ParserCopy(parser), copy(stream),
                          nextargs_arguments)
    /\ pc' = "optional"
    /\ UNCHANGED <<options, tokens, parser, stream, container, arguments, alternatives,
                   reps, err, rendered, threads, expr_parser, lexer, heap, expression>>

OptionalCommit ==
    /\ pc = "optional"
    /\ attempt.err = NoErr
    /\ Returns(MultiArgument_do_parse(current_arg.arguments, parser, stream, container,
                                      nextargs_arguments),
               Tail(arguments))
    /\ UNCHANGED <<options, tokens, attempt, alternatives, reps, rendered, threads,
                   expr_parser, lexer, heap, expression>>

\* Optional.parse falling back to the defaults, were it to hand back the
\* stream copy of the attempt instead of the live stream.
OptionalDefaultsOnCopy ==
    /\ pc = "optional"
    /\ Caught(attempt.err)
    /\ Returns(PR(NoErr, parser, attempt.stream,
                  InstallDefaults(current_arg.arguments, container)),
               Tail(arguments))
    /\ UNCHANGED <<options, tokens, attempt, alternatives, reps, rendered, threads,
                   expr_parser, lexer, heap, expression>>

OptionalDefaults ==
    /\ pc = "optional"
    /\ Caught(attempt.err)
    /\ Returns(PR(NoErr, parser, stream,
                  InstallDefaults(current_arg.arguments, container)),
               Tail(arguments))
    /\ UNCHANGED <<options, tokens, attempt, alternatives, reps, rendered, threads,
                   expr_parser, lexer, heap, expression>>

OptionalRaise ==
    /\ pc = "optional"
    /\ attempt.err # NoErr
    /\ ~Caught(attempt.err)
    /\ Raise(attempt.err)
    /\ UNCHANGED <<options, tokens, attempt, alternatives, reps, rendered, threads,
                   expr_parser, lexer, heap, expression>>

(***************************************************************************)
(* OneOf.parse in its steps.                                               *)
(***************************************************************************)
OneOfBegin ==
    /\ pc = "parsing"
    /\ arguments # <<>>
    /\ current_arg.kind = "OneOf"
    /\ alternatives' = current_arg.arguments
    /\ pc' = "oneof"
    /\ UNCHANGED <<options, tokens, parser, stream, container, arguments, attempt,
                   reps, err, rendered, threads, expr_parser, lexer, heap, expression>>

OneOfAttempt ==
    /\ pc = "oneof"
    /\ alternatives # <<>>
    /\ attempt' = AttemptOne(Head(alternatives), ParserCopy(parser), copy(stream),
                             nextargs_arguments)
    /\ pc' = "oneof_tried"
    /\ UNCHANGED <<options, tokens, parser, stream, container, arguments, alternatives,
                   reps, err, rendered, threads, expr_parser, lexer, heap, expression>>

OneOfCommit ==
    /\ pc = "oneof_tried"
    /\ attempt.err = NoErr
    /\ Returns(parse(Head(alternatives), parser, stream, container, nextargs_arguments),
               Tail(arguments))
    /\ UNCHANGED <<options, tokens, attempt, alternatives, reps, rendered, threads,
                   expr_parser, lexer, heap, expression>>

OneOfReject ==
    /\ pc = "oneof_tried"
    /\ Caught(attempt.err)
    /\ alternatives' = Tail(alternatives)
    /\ pc' = "oneof"
    /\ UNCHANGED <<options, tokens, parser, stream, container, arguments, attempt,
                   reps, err, rendered, threads, expr_parser, lexer, heap, expression>>

OneOfRaise ==
    /\ pc = "oneof_tried"
    /\ attempt.err # NoErr
    /\ ~Caught(attempt.err)
    /\ Raise(attempt.err)
    /\ UNCHANGED <<options, tokens, attempt, alternatives, reps, rendered, threads,
                   expr_parser, lexer, heap, expression>>

OneOfExhausted ==
    /\ pc = "oneof"
    /\ alternatives = <<>>
    /\ Raise("ArgumentRequiredError")
    /\ UNCHANGED <<options, tokens, attempt, alternatives, reps, rendered, threads,
                   expr_parser, lexer, heap, expression>>

(***************************************************************************)
(* Repetition.parse in its steps.  The copies are made once, before the    *)
(* loop; MaxIter bounds the iterations the model follows.                  *)
(***************************************************************************)
RepetitionBegin ==
    /\ pc = "parsing"
    /\ arguments # <<>>
    /\ current_arg.kind = "Repetition"
    /\ attempt' = PR(NoErr, ParserCopy(parser), copy(stream), Container)
    /\ reps' = <<>>
    /\ pc' = "repetition"
    /\ UNCHANGED <<options, tokens, parser, stream, container, arguments, alternatives,
                   err, rendered, threads, expr_parser, lexer, heap, expression>>

RepetitionAttempt ==
    /\ pc = "repetition"
    /\ Len(reps) < MaxIter
    /\ attempt' = Attempt(current_arg.arguments, attempt.parser, attempt.stream,
                          nextargs_arguments)
    /\ pc' = "repetition_tried"
    /\ UNCHANGED <<options, tokens, parser, stream, container, arguments, alternatives,
                   reps, err, rendered, threads, expr_parser, lexer, heap, expression>>

\* RepetitionCommitted without the extend of arguments.py:722: the nodelists
\* of a repetition stay in its own bag.
RepetitionCommittedApart(real) ==
    IF real.err = NoErr
    THEN /\ reps' = Append(reps, RepContainer(real.container))
         /\ stream' = real.stream
         /\ parser' = real.parser
         /\ container' = container
         /\ pc' = "repetition"
         /\ UNCHANGED <<arguments, err>>
    ELSE /\ Returns(PR(real.err, real.parser, real.stream, container), arguments)
         /\ reps' = reps

\* real is the re-execution on the live objects with a fresh bag: its
\* repetition is recorded and its nodelists are carried over, or its
\* exception escapes.
RepetitionCommitted(real) ==
    IF real.err = NoErr
    THEN /\ reps' = Append(reps, RepContainer(real.container))
         /\ stream' = real.stream
         /\ parser' = real.parser
         /\ container' = [container EXCEPT !.tag_nodelists =
                              @ \o real.container.tag_nodelists]
         /\ pc' = "repetition"
         /\ UNCHANGED <<arguments, err>>
    ELSE /\ Returns(PR(real.err, real.parser, real.stream, container), arguments)
         /\ reps' = reps

RepetitionCommit ==
    /\ pc = "repetition_tried"
    /\ attempt.err = NoErr
    /\ RepetitionCommitted(MultiArgument_do_parse(current_arg.arguments, parser, stream,
                                                  Container, nextargs_arguments))
    /\ UNCHANGED <<options, tokens, attempt, alternatives, rendered, threads,
                   expr_parser, lexer, heap, expression>>

RepetitionExit ==
    /\ pc = "repetition_tried"
    /\ Caught(attempt.err)
    /\ Returns(RepetitionFinish(current_arg, parser, stream, container, reps),
               Tail(arguments))
    /\ UNCHANGED <<options, tokens, attempt, alternatives, reps, rendered, threads,
                   expr_parser, lexer, heap, expression>>

RepetitionRaise ==
    /\ pc = "repetition_tried"
    /\ attempt.err # NoErr
    /\ ~Caught(attempt.err)
    /\ Raise(attempt.err)
    /\ UNCHANGED <<options, tokens, attempt, alternatives, reps, rendered, threads,
                   expr_parser, lexer, heap, expression>>

(***************************************************************************)
(* The end of BlockTag.parse, and Tag.render.                              *)
(***************************************************************************)
BlockTagEnd ==
    /\ pc = "parsing"
    /\ arguments = <<>>
    /\ IF ~eos(stream)
       THEN /\ pc' = "raised"
            /\ err' = "TooManyArguments"
       ELSE /\ pc' = "parsed"
            /\ err' = err
    /\ UNCHANGED <<options, tokens, parser, stream, container, arguments, attempt,
                   alternatives, reps, rendered, threads, expr_parser, lexer, heap, expression>>

Render ==
    /\ pc \in {"parsed", "rendered"}
    /\ Len(rendered) < MaxRenders
    /\ rendered' = Append(rendered, render(container, Context))
    /\ pc' = "rendered"
    /\ UNCHANGED <<options, tokens, parser, stream, container, arguments, attempt,
                   alternatives, reps, err, threads, expr_parser, lexer, heap, expression>>

Next ==
    \/ Initialize
    \/ TagFunction
    \/ ParseArgument
    \/ OptionalAttempt
    \/ OptionalCommit
    \/ OptionalDefaults
    \/ OptionalRaise
    \/ OneOfBegin
    \/ OneOfAttempt
    \/ OneOfCommit
    \/ OneOfReject
    \/ OneOfRaise
    \/ OneOfExhausted
    \/ RepetitionBegin
    \/ RepetitionAttempt
    \/ RepetitionCommit
    \/ RepetitionExit
    \/ RepetitionRaise
    \/ BlockTagEnd
    \/ Render

Spec == Init /\ [][Next]_vars

\* The invocation has returned or raised.
Finished == pc \in {"parsed", "rendered", "raised"}

Structured == options.parser.arguments

(***************************************************************************)
(* Properties of the tag-invocation parse.                                 *)
(***************************************************************************)

\* The tag whose Options declaration is t.
Declared(t) ==
    IF options.initialized THEN options.parser = Options_initialize(t, TagName).parser
    ELSE options.arguments = t

\* The values a bag holds, by position or by name.
Values(c) == SeqToSet(c.tag_args) \cup {c.tag_kwargs[k] : k \in DOMAIN c.tag_kwargs}

\* The entries of bag c2 that bag c1 does not hold as they are.
NewNames(c1, c2) ==
    {k \in DOMAIN c2.tag_kwargs :
        k \notin DOMAIN c1.tag_kwargs \/ c2.tag_kwargs[k] # c1.tag_kwargs[k]}

\* The declared defaults of the children of a composite.
DeclaredDefault(composite, k, value) ==
    \E i \in 1..Len(composite.arguments) :
        /\ HasGetDefault(composite.arguments[i])
        /\ composite.arguments[i].name = k
        /\ value = get_default(composite.arguments[i])

\* What the step after a failed attempt may add to the live bag: a declared
\* default of a child of the Optional, or the sequence of the repetitions
\* committed before the failed iteration.
AddedAfterFailure(k, value) ==
    \/ /\ pc = "optional"
       /\ DeclaredDefault(current_arg, k, value)
    \/ /\ pc = "repetition_tried"
       /\ k = current_arg.name
       /\ value = ListValue(WithDefaultRepetition(current_arg, reps))

FailedAttempt ==
    /\ pc \in {"optional", "oneof_tried", "repetition_tried"}
    /\ attempt.err # NoErr

\* C1: when the speculative attempt of an Optional, of a OneOf alternative
\* or of a Repetition iteration has failed, the step that follows leaves the
\* live stream with exactly the tokens it had, leaves the positional entries
\* and the committed repetitions alone, and adds to the live bag nothing but
\* the declared defaults of the Optional's children (or the sequence of the
\* repetitions committed earlier); a rejected OneOf alternative adds nothing,
\* and a OneOf that has run out of alternatives adds nothing and raises
\* ArgumentRequiredError.
C1_FailedAttemptLeavesLiveObjects ==
    [][/\ FailedAttempt =>
            /\ stream' = stream
            /\ parser' = parser
            /\ reps' = reps
            /\ container'.tag_args = container.tag_args
            /\ container'.tag_nodelists = container.tag_nodelists
            /\ DOMAIN container.tag_kwargs \subseteq DOMAIN container'.tag_kwargs
            /\ \A k \in NewNames(container, container') :
                   AddedAfterFailure(k, container'.tag_kwargs[k])
            /\ pc = "oneof_tried" => container' = container
       /\ (pc = "oneof" /\ alternatives = <<>>) =>
            /\ stream' = stream
            /\ container' = container
            /\ pc' = "raised"
            /\ err' = "ArgumentRequiredError"]_vars

\* An Optional whose attempt captured a value and consumed a token before it
\* failed has fallen back to its defaults: the live stream still holds both
\* tokens and the name holds the default, not the captured value.
C1_Witness ==
    /\ Declared(<<Optional(<<Required(<<"x">>), Str(s_as)>>)>>)
    /\ tokens = <<NameTok(s_a), NameTok(s_b)>>
    /\ pc = "parsing"
    /\ arguments = <<>>
    /\ Caught(attempt.err)
    /\ attempt.container.tag_kwargs = (<<"x">> :> StringValue(Name(s_a)))
    /\ attempt.stream = <<NameTok(s_b)>>
    /\ stream = tokens
    /\ container.tag_kwargs = (<<"x">> :> StaticValue(NoneV))

\* The declarations that are one OneOf of two alternatives.
OneOfTags ==
    {t \in Tags : Len(t) = 1 /\ t[1].kind = "OneOf" /\ Len(t[1].arguments) = 2}

\* The invocation ended as the call r did: same exception, bag and stream.
SameOutcome(r) ==
    /\ err = r.err
    /\ container = r.container
    /\ stream = r.stream

\* The tag declared from the one alternative A alone raises on the input.
CannotParse(A, input) == Options_parse(<<A>>, TagName, DjangoParser, input).err # NoErr

\* The parse of the tag declared from the one alternative B alone.
OnlyTree(B, input) == Options_parse(<<B>>, TagName, DjangoParser, input)

\* C2: for a tag that is a OneOf of the alternatives [A, B], on an input
\* that the tree of A alone cannot parse and the tree of B alone can, the
\* invocation ends with the bag and the remaining stream of the tree that
\* contains only B.
C2_OneOfAsOnlyB ==
    \A t \in OneOfTags :
        (/\ Declared(t)
         /\ pc \in {"parsed", "raised"}
         /\ CannotParse(t[1].arguments[1], tokens)
         /\ OnlyTree(t[1].arguments[2], tokens).err = NoErr)
        => SameOutcome(OnlyTree(t[1].arguments[2], tokens))

\* OneOf('as', Argument('v', required=False, default='d')) on the one token
\* a: the tree of the Argument alone binds v to a, the OneOf binds v to its
\* default, leaves the token and the invocation raises TooManyArguments.
C2_Witness ==
    /\ Declared(<<OneOf(<<Str(s_as), NotRequired(<<"v">>, d_plain)>>)>>)
    /\ tokens = <<NameTok(s_a)>>
    /\ OnlyTree(NotRequired(<<"v">>, d_plain), tokens).err = NoErr
    /\ OnlyTree(NotRequired(<<"v">>, d_plain), tokens).container.tag_kwargs
           = (<<"v">> :> StringValue(Name(s_a)))
    /\ CannotParse(Str(s_as), tokens)
    /\ pc = "raised"
    /\ err = "TooManyArguments"
    /\ stream = <<NameTok(s_a)>>
    /\ container.tag_kwargs = (<<"v">> :> StaticValue(d_plain))

\* C3: the names of the live bag are bound at most once: no step of the
\* parse overwrites or extends the value a name already holds (a descriptor
\* that would rebind it raises KeywordInUse instead).
C3_BoundAtMostOnce ==
    [][\A k \in DOMAIN container.tag_kwargs :
           /\ k \in DOMAIN container'.tag_kwargs
           /\ container'.tag_kwargs[k] = container.tag_kwargs[k]]_vars

\* Options(Argument('x'), Argument('x', required=False, default='d')) on the
\* one token a: the first child alone binds x to a, and the invocation
\* returns with x holding the default the Optional installed over it.
C3_Witness ==
    /\ Declared(<<Required(<<"x">>), NotRequired(<<"x">>, d_plain)>>)
    /\ tokens = <<NameTok(s_a)>>
    /\ ArgumentParse(Required(<<"x">>), DjangoParser, tokens, Container).container.tag_kwargs
           = (<<"x">> :> StringValue(Name(s_a)))
    /\ pc = "parsed"
    /\ err = NoErr
    /\ container.tag_kwargs = (<<"x">> :> StaticValue(d_plain))

(***************************************************************************)
(* Two invocations of one tag in two threads.  The tag function gives each *)
(* invocation its own stream and bag; the Options object and its           *)
(* descriptors are the ones of the tag class.  BaseArgument.__init__ gives *)
(* every descriptor one ExprParser, and ExprParser.parse stores the stream *)
(* it is handed in self.stream before parse_expression reads it:           *)
(* expr_parser[name] is the thread whose stream self.stream of the         *)
(* descriptor `name` refers to (0 before the first call).  A thread switch *)
(* can fall between any two of the steps below.                            *)
(***************************************************************************)
Threads == {1, 2}

\* The longest invocation of the concurrent specification.
ConcLen == 2

ConcInputs == SeqsUpTo({NameTok(s_a), NameTok(s_b)}, ConcLen)

ConcTags ==
    { <<Required(<<"x">>)>>,
      <<Required(<<"x">>), Required(<<"y">>)>> }

Idle(input) ==
    [pc |-> "idle", tokens |-> input, stream |-> <<>>, container |-> Container,
     arguments |-> <<>>, err |-> NoErr]

InitConc ==
    /\ options \in {Initialized(Options_initialize(t, TagName).parser) : t \in ConcTags}
    /\ threads \in [Threads -> {Idle(input) : input \in ConcInputs}]
    /\ expr_parser = [name \in {<<"x">>, <<"y">>} |-> 0]
    /\ Elsewhere
    /\ tokens = <<>>
    /\ pc = "shared"
    /\ parser = DjangoParser
    /\ stream = <<>>
    /\ container = Container
    /\ arguments = <<>>
    /\ attempt = NoAttempt
    /\ alternatives = <<>>
    /\ reps = <<>>
    /\ err = NoErr
    /\ rendered = <<>>

OneInvocation ==
    UNCHANGED <<options, tokens, pc, parser, stream, container, arguments, attempt,
                alternatives, reps, err, rendered, lexer, heap, expression>>

\* The tag function in thread i: a fresh bag, Options.parse tokenizes and
\* BlockTag.parse skips the tag name.
ConcCall(i) ==
    /\ threads[i].pc = "idle"
    /\ BlockTagCleanToken(options.parser, tokenize(TagName, threads[i].tokens)) = NoErr
    /\ threads' = [threads EXCEPT ![i] =
           [@ EXCEPT !.pc = "parsing",
                     !.stream = next(tokenize(TagName, threads[i].tokens)),
                     !.container = Container,
                     !.arguments = options.parser.arguments]]
    /\ UNCHANGED expr_parser
    /\ OneInvocation

\* Argument.clean_token in thread i up to and including the first statement
\* of ExprParser.parse: self.stream = stream.
ConcCleanToken(i) ==
    /\ threads[i].pc = "parsing"
    /\ threads[i].arguments # <<>>
    /\ Head(threads[i].arguments).kind = "Argument"
    /\ IF eos(threads[i].stream)
       THEN /\ threads' = [threads EXCEPT ![i] =
                   [@ EXCEPT !.pc = "raised", !.err = "ArgumentRequiredError"]]
            /\ UNCHANGED expr_parser
       ELSE IF InSeq(current(threads[i].stream).value, Head(threads[i].arguments).exclude)
       THEN /\ threads' = [threads EXCEPT ![i] =
                   [@ EXCEPT !.pc = "raised", !.err = "InvalidArgument"]]
            /\ UNCHANGED expr_parser
       ELSE /\ threads' = [threads EXCEPT ![i].pc = "expression"]
            /\ expr_parser' = [expr_parser EXCEPT ![Head(threads[i].arguments).name] = i]
    /\ OneInvocation

\* Thread i after parse_expression has read and advanced self.stream, the
\* stream of thread j: r is the parsed expression, sv the set_value of
\* thread i on its own bag.
ConcBound(i, j, r, sv) ==
    [k \in Threads |->
        IF k = i
        THEN [threads[i] EXCEPT
                 !.stream = IF j = i THEN r.rest ELSE @,
                 !.container = sv.container,
                 !.err = sv.err,
                 !.pc = IF sv.err = NoErr THEN "parsing" ELSE "raised",
                 !.arguments = IF sv.err = NoErr THEN Tail(@) ELSE @]
        ELSE IF k = j THEN [threads[j] EXCEPT !.stream = r.rest]
        ELSE threads[k]]

ConcFailed(i, j, r) ==
    [k \in Threads |->
        IF k = i
        THEN [threads[i] EXCEPT
                 !.stream = IF j = i THEN r.rest ELSE @,
                 !.err = r.err,
                 !.pc = "raised"]
        ELSE IF k = j THEN [threads[j] EXCEPT !.stream = r.rest]
        ELSE threads[k]]

ConcExpression(i, j, r) ==
    IF ~r.ok THEN ConcFailed(i, j, r)
    ELSE ConcBound(i, j, r,
                   set_value(Head(threads[i].arguments), Head(threads[i].arguments).name,
                             StringValue(r.node), threads[i].container))

\* The rest of Argument.parse in thread i: self.parse_expression() on
\* self.stream, then get_value and set_value on the thread's own bag.
ConcParseExpression(i) ==
    /\ threads[i].pc = "expression"
    /\ threads' = ConcExpression(i, expr_parser[Head(threads[i].arguments).name],
           parse_expression(
               threads[expr_parser[Head(threads[i].arguments).name]].stream))
    /\ UNCHANGED expr_parser
    /\ OneInvocation

\* The end of BlockTag.parse in thread i.
ConcEnd(i) ==
    /\ threads[i].pc = "parsing"
    /\ threads[i].arguments = <<>>
    /\ threads' = [threads EXCEPT ![i] =
           IF ~eos(threads[i].stream)
           THEN [@ EXCEPT !.pc = "raised", !.err = "TooManyArguments"]
           ELSE [@ EXCEPT !.pc = "parsed"]]
    /\ UNCHANGED expr_parser
    /\ OneInvocation

NextConc ==
    \/ \E i \in Threads : ConcCall(i)
    \/ \E i \in Threads : ConcCleanToken(i)
    \/ \E i \in Threads : ConcParseExpression(i)
    \/ \E i \in Threads : ConcEnd(i)

SpecConc == InitConc /\ [][NextConc]_vars

\* The invocation of thread i run alone on the tag.
Alone(i) ==
    BlockTagParse(options.parser, DjangoParser, tokenize(TagName, threads[i].tokens),
                  Container, <<>>)

\* C4: whatever the interleaving of two invocations of one tag, each of
\* them ends with the bag, or with the error, it ends with when run alone.
C4_SameAsAlone ==
    \A i \in Threads :
        threads[i].pc \in {"parsed", "raised"} =>
            /\ threads[i].err = Alone(i).err
            /\ threads[i].err = NoErr => threads[i].container = Alone(i).container

\* Both threads are between self.stream = stream and parse_expression of the
\* descriptor x, so that self.stream is the stream of the second thread, and
\* the first thread then binds the token of the second: thread 1, called
\* with a b, ends with x bound to b, where alone it binds x to a.
C4_Witness ==
    /\ options.parser = Options_initialize(<<Required(<<"x">>), Required(<<"y">>)>>, TagName).parser
    /\ threads[1].tokens = <<NameTok(s_a), NameTok(s_b)>>
    /\ threads[2].tokens = <<NameTok(s_b), NameTok(s_a)>>
    /\ Alone(1).err = NoErr
    /\ Alone(1).container.tag_kwargs[<<"x">>] = StringValue(Name(s_a))
    /\ threads[1].pc \in {"parsed", "raised"}
    /\ <<"x">> \in DOMAIN threads[1].container.tag_kwargs
    /\ threads[1].container.tag_kwargs[<<"x">>] = StringValue(Name(s_b))

\* C5: the parse terminates.  A Repetition loop runs on until an attempt
\* fails, so it exits only if every iteration it commits leaves fewer
\* tokens on the live stream, and no child's parse runs for ever.
C5_RepetitionConsumes ==
    [][/\ (pc = "repetition_tried" /\ pc' = "repetition") => Len(stream') < Len(stream)
       /\ pc' # "diverged"]_vars

\* Repetition('r', Flag('f', true_values=['on'], default=False)) on the one
\* token a: every attempt succeeds on the default of the flag and consumes
\* nothing, and the loop has committed more repetitions than there are
\* tokens with the stream as it was.
C5_Witness ==
    /\ Declared(<<Repetition(<<"r">>, <<FlagOn(BoolV(FALSE))>>, 0, 0)>>)
    /\ tokens = <<NameTok(s_a)>>
    /\ pc = "repetition"
    /\ stream = tokens
    /\ Len(reps) = MaxIter
    /\ \A n \in 1..Len(reps) : reps[n].tag_kwargs = (<<"f">> :> StaticValue(BoolV(FALSE)))

\* The names of the first n required single-value arguments.
RequiredNames == <<(<<"x">>), (<<"y">>), (<<"z">>)>>

\* Options(Argument(name1), ..., Argument(namen))
NRequired(n) == [i \in 1..n |-> Required(RequiredNames[i])]

\* Every token is a value on its own: a name, and no operator.
ValueTokens(input) == \A i \in 1..Len(input) : input[i].type = "name"

\* C6: a tag of n required named single-value arguments, called with value
\* tokens, accepts exactly n of them: with n tokens it returns a bag with no
\* positional entry and the n names, the i-th bound to the value of the i-th
\* token; with more tokens it raises TooManyArguments, with fewer
\* ArgumentRequiredError.
C6_ExactlyNTokens ==
    \A n \in 1..Len(RequiredNames) :
        (Declared(NRequired(n)) /\ pc \in {"parsed", "raised"} /\ ValueTokens(tokens)) =>
            IF Len(tokens) = n
            THEN /\ pc = "parsed"
                 /\ err = NoErr
                 /\ container.tag_args = <<>>
                 /\ DOMAIN container.tag_kwargs = {RequiredNames[i] : i \in 1..n}
                 /\ \A i \in 1..n :
                        container.tag_kwargs[RequiredNames[i]]
                            = StringValue(Name(tokens[i].value))
            ELSE IF Len(tokens) > n
            THEN pc = "raised" /\ err = "TooManyArguments"
            ELSE pc = "raised" /\ err = "ArgumentRequiredError"

\* Three required arguments and three tokens: x, y and z hold the values of
\* the first, second and third token.
C6_Witness ==
    /\ Declared(NRequired(3))
    /\ tokens = <<NameTok(s_a), NameTok(s_b), NameTok(s_as)>>
    /\ pc = "parsed"
    /\ container.tag_args = <<>>
    /\ container.tag_kwargs = (<<"x">> :> StringValue(Name(s_a)))
                              @@ (<<"y">> :> StringValue(Name(s_b)))
                              @@ (<<"z">> :> StringValue(Name(s_as)))

\* The declared defaults of the trailing non-required argument.
DeclaredDefaults == {d_plain, d_quoted}

\* C7: a tag whose one argument is non-required with a declared default
\* renders with that default when called without a token, with the value of
\* the supplied name when called with one, and with the same values every
\* time it is rendered.
C7_DefaultOrSupplied ==
    \A d \in DeclaredDefaults :
        (Declared(<<NotRequired(<<"v">>, d)>>) /\ pc = "rendered") =>
            /\ tokens = <<>> =>
                   /\ rendered[1].err = NoErr
                   /\ rendered[1].kwargs = (<<"v">> :> d)
            /\ (Len(tokens) = 1 /\ tokens[1].value \in DOMAIN Context) =>
                   /\ rendered[1].err = NoErr
                   /\ rendered[1].kwargs = (<<"v">> :> Context[tokens[1].value])
            /\ \A n \in 1..Len(rendered) : rendered[n] = rendered[1]

\* Argument('v', required=False, default="'d'") called without a token: the
\* tag renders with d, the declared default without its quotes.
C7_Witness ==
    /\ Declared(<<NotRequired(<<"v">>, d_quoted)>>)
    /\ tokens = <<>>
    /\ pc = "rendered"
    /\ container.tag_kwargs = (<<"v">> :> get_default(NotRequired(<<"v">>, d_quoted)))
    /\ rendered[1].kwargs[<<"v">>] = StrV(<<"d">>)
    /\ rendered[1].kwargs[<<"v">>] # d_quoted

\* The positions of a declaration where a Constant breakpoint is followed
\* by a non-required descriptor.
Breakpoints(t) ==
    {i \in 1..(Len(t) - 1) :
        t[i].kind = "basestring" /\ HasGetDefault(t[i + 1]) /\ ~t[i + 1].required}

\* arg is the Optional of the breakpoint `value` and the non-required
\* descriptor `name`.
Paired(arg, value, name) ==
    /\ arg.kind = "Optional"
    /\ Len(arg.arguments) = 2
    /\ IsConstant(arg.arguments[1])
    /\ arg.arguments[1].value = value
    /\ HasGetDefault(arg.arguments[2])
    /\ ~arg.arguments[2].required
    /\ arg.arguments[2].name = name

IsPaired(arg) ==
    /\ arg.kind = "Optional"
    /\ Len(arg.arguments) = 2
    /\ Paired(arg, arg.arguments[1].value, arg.arguments[2].name)

\* The Optional of a breakpoint and its value returned: it consumed neither
\* token and bound the name to its default, or it consumed the breakpoint
\* and bound the name; a single-value Argument is then bound to the token
\* that followed the breakpoint, consumed as well.
BothOrNeither(breakpoint, value) ==
    \/ /\ stream' = stream
       /\ value.name \in DOMAIN container'.tag_kwargs
       /\ container'.tag_kwargs[value.name] = get_default(value)
    \/ /\ current(stream).value = breakpoint.value
       /\ Len(stream') < Len(stream)
       /\ value.name \in DOMAIN container'.tag_kwargs
       /\ value.kind = "Argument" =>
              /\ Len(stream') + 2 <= Len(stream)
              /\ container'.tag_kwargs[value.name].cls = "StringValue"

ValuesOf(input, n) == [i \in 1..n |-> StringValue(Name(input[i].value))]

\* The first n tokens are values and none of them is the breakpoint.
ValuesBefore(input, n) ==
    \A i \in 1..n : input[i].type = "name" /\ input[i].value # s_as

\* The list the name m holds (none when m is not bound).
BoundList(c) ==
    IF <<"m">> \in DOMAIN c.tag_kwargs THEN c.tag_kwargs[<<"m">>].items ELSE <<>>

\* C9: a MultiValueArgument with max_values=K binds at most K values; called
\* with exactly K value tokens it returns with the K values in order, with
\* K+1 value tokens it raises TooManyArguments; and when fewer than K value
\* tokens are followed by the breakpoint of the next Constant, it stops with
\* the values before the breakpoint and the breakpoint as the current token.
C9_MaxValues ==
    /\ (Declared(MultiValueOnly) \/ Declared(MultiValueThenBreakpoint)) =>
            Len(BoundList(container)) <= K
    /\ (Declared(MultiValueOnly) /\ pc \in {"parsed", "raised"} /\ ValueTokens(tokens)) =>
            /\ Len(tokens) = K =>
                   /\ pc = "parsed"
                   /\ container.tag_kwargs = (<<"m">> :> ListValue(ValuesOf(tokens, K)))
            /\ Len(tokens) = K + 1 =>
                   /\ pc = "raised"
                   /\ err = "TooManyArguments"
    /\ (/\ Declared(MultiValueThenBreakpoint)
        /\ pc = "parsing"
        /\ Len(arguments) = 2) =>
            \A n \in 0..(K - 1) :
                (/\ Len(tokens) > n
                 /\ ValuesBefore(tokens, n)
                 /\ tokens[n + 1] = NameTok(s_as)) =>
                    /\ current(stream) = NameTok(s_as)
                    /\ stream = SubSeq(tokens, n + 1, Len(tokens))
                    /\ container.tag_kwargs = (<<"m">> :> ListValue(ValuesOf(tokens, n)))

\* One value, then the breakpoint, then the value of the next argument: the
\* multi-value has bound the one value and stopped at the breakpoint.
C9_Witness ==
    /\ Declared(MultiValueThenBreakpoint)
    /\ tokens = <<NameTok(s_a), NameTok(s_as), NameTok(s_b)>>
    /\ pc = "parsing"
    /\ Len(arguments) = 2
    /\ IsConstant(current_arg)
    /\ current(stream) = NameTok(s_as)
    /\ container.tag_kwargs = (<<"m">> :> ListValue(<<StringValue(Name(s_a))>>))

\* The bag of the repetition that captured the value token tok.
RepetitionOf(tok) ==
    RepContainer([Container EXCEPT !.tag_kwargs = (<<"v">> :> StringValue(Name(tok.value)))])

\* No repetition of 'as' <value> matches the input.
NoneMatches(input) == Len(input) <= 1 \/ Head(input) # NameTok(s_as)

\* C10: a Repetition binds the ordered sequence of one separate bag per
\* matched repetition, the bag of repetition i holding the value captured in
\* iteration i and nothing of the other repetitions; and with min_reps=1 and
\* no matching repetition the parse raises ArgumentRequiredError.
C10_OneBagPerRepetition ==
    /\ (/\ Declared(RepeatedValue)
        /\ pc \in {"parsed", "raised"}
        /\ ValueTokens(tokens)
        /\ tokens # <<>>) =>
            /\ pc = "parsed"
            /\ container.tag_args = <<>>
            /\ container.tag_kwargs =
                   (<<"r">> :> ListValue([i \in 1..Len(tokens) |-> RepetitionOf(tokens[i])]))
    /\ (/\ Declared(RepeatedValue)
        /\ pc \in {"repetition", "repetition_tried"}
        /\ ValueTokens(tokens)) =>
            /\ Len(reps) <= Len(tokens)
            /\ \A i \in 1..Len(reps) : reps[i] = RepetitionOf(tokens[i])
    /\ (Declared(AtLeastOnce) /\ pc \in {"parsed", "raised"}) =>
            /\ NoneMatches(tokens) => (pc = "raised" /\ err = "ArgumentRequiredError")
            /\ (Len(tokens) = 2 /\ ValueTokens(tokens) /\ ~NoneMatches(tokens)) =>
                   /\ pc = "parsed"
                   /\ container.tag_kwargs =
                          (<<"r">> :> ListValue(<<RepetitionOf(tokens[2])>>))

\* Three value tokens: r holds three bags, the i-th with the value of the
\* i-th token.
C10_Witness ==
    /\ Declared(RepeatedValue)
    /\ tokens = <<NameTok(s_a), NameTok(s_b), NameTok(s_a)>>
    /\ pc = "parsed"
    /\ Len(reps) = 3
    /\ container.tag_kwargs[<<"r">>].items =
           <<RepetitionOf(NameTok(s_a)), RepetitionOf(NameTok(s_b)),
             RepetitionOf(NameTok(s_a))>>

(***************************************************************************)
(* Repetition.parse with max_reps set.                                     *)
(***************************************************************************)
\* The loop of a Repetition has ended with more repetitions than max_reps.
TooManyRepetitions ==
    /\ pc = "repetition_tried"
    /\ Caught(attempt.err)
    /\ current_arg.max_reps # 0
    /\ Len(reps) > current_arg.max_reps

\* C11: when the loop of a Repetition with max_reps set ends with more than
\* max_reps committed repetitions, the parse raises TooManyArguments and
\* nothing else, and the repetitions are not bound.
C11_TooManyRepetitions ==
    [][TooManyRepetitions =>
          /\ pc' = "raised"
          /\ err' = "TooManyArguments"
          /\ container' = container]_vars

\* Repetition('r', Argument('v'), max_reps=1) invoked with two values: both
\* repetitions are committed and the invocation has raised.
C11_Witness ==
    /\ Declared(AtMostOnce)
    /\ tokens = <<NameTok(s_a), NameTok(s_b)>>
    /\ Len(reps) = 2
    /\ pc = "raised"
    /\ err = "NameError"

(***************************************************************************)
(* Flag.parse on its own: a structured Flag applied to a stream.           *)
(***************************************************************************)
s_On == <<"O", "n">>

s_ON == <<"O", "N">>

s_Off == <<"O", "f", "f">>

s_off == <<"o", "f", "f">>

TrueValues == {s_On}

FalseValues == {s_Off}

\* How many tokens the stream handed to a Flag holds at most.
FlagLen == 2

FlagVocab ==
    {NameTok(s_on), NameTok(s_On), NameTok(s_ON), NameTok(s_off), NameTok(s_a),
     NameTok(s_as)}

FlagInputs == SeqsUpTo(FlagVocab, FlagLen)

FlagOf(default, case_sensitive) ==
    Flag(<<"f">>, default, TrueValues, FalseValues, case_sensitive)

\* The Options(...) declarations with a Flag in front.
FlagTags ==
    { <<FlagOf(NullV, FALSE)>>,
      <<FlagOf(NullV, TRUE)>>,
      <<FlagOf(BoolV(FALSE), FALSE)>>,
      <<FlagOf(BoolV(TRUE), TRUE)>>,
      <<FlagOf(NullV, FALSE), Str(s_as)>>,
      <<FlagOf(BoolV(TRUE), FALSE), Str(s_as)>> }

InitFlag ==
    /\ options \in {[initialized |-> FALSE, arguments |-> t, parser |-> NoArg] :
                       t \in FlagTags}
    /\ tokens \in FlagInputs
    /\ pc = "constructed"
    /\ parser = DjangoParser
    /\ stream = <<>>
    /\ container = Container
    /\ arguments = <<>>
    /\ attempt = NoAttempt
    /\ alternatives = <<>>
    /\ reps = <<>>
    /\ err = NoErr
    /\ rendered = <<>>
    /\ threads = <<>>
    /\ expr_parser = <<>>
    /\ Elsewhere

\* The Flag of the structured tag: the structuring pass has wrapped a Flag
\* with a default in an Optional.
StructuredFlag(first) == IF first.kind = "Optional" THEN first.arguments[1] ELSE first

TheFlag == StructuredFlag(Structured[1])

\* The stream as the Flag receives it.
FlagStream ==
    /\ pc = "initialized"
    /\ stream' = tokens
    /\ pc' = "flag"
    /\ UNCHANGED <<options, tokens, parser, container, arguments, attempt, alternatives,
                   reps, err, rendered, threads, expr_parser, lexer, heap, expression>>

FlagReturns(r) ==
    /\ stream' = r.stream
    /\ container' = r.container
    /\ err' = r.err
    /\ pc' = IF r.err = NoErr THEN "flag_returned" ELSE "flag_raised"

\* Flag.parse on the live stream and bag.
FlagInvoke ==
    /\ pc = "flag"
    /\ FlagReturns(FlagParse(TheFlag, parser, stream, container))
    /\ UNCHANGED <<options, tokens, parser, arguments, attempt, alternatives, reps,
                   rendered, threads, expr_parser, lexer, heap, expression>>

NextFlag ==
    \/ Initialize
    \/ FlagStream
    \/ FlagInvoke

SpecFlag == InitFlag /\ [][NextFlag]_vars

\* The token is one of the declared values, as the flag compares them.
InVocabulary(flag, token, declared) ==
    \E v \in declared :
        IF flag.case_sensitive THEN token = v ELSE lower(token) = lower(v)

\* The flag has bound `value`, and `rest` is what the stream still holds.
FlagBound(value, rest) ==
    /\ pc = "flag_returned"
    /\ err = NoErr
    /\ container.tag_kwargs = (<<"f">> :> StaticValue(value))
    /\ container.tag_args = <<>>
    /\ stream = rest

\* The flag has raised `e` and bound and consumed nothing.
FlagRaised(e) ==
    /\ pc = "flag_raised"
    /\ err = e
    /\ container = Container
    /\ stream = tokens

\* What Flag.parse does with a present token, by the declared vocabularies.
FlagOutcome(flag, token) ==
    IF InVocabulary(flag, token, TrueValues) THEN FlagBound(BoolV(TRUE), Tail(tokens))
    ELSE IF InVocabulary(flag, token, FalseValues)
    THEN FlagBound(BoolV(FALSE), Tail(tokens))
    ELSE IF flag.default = NullV THEN FlagRaised("InvalidFlag")
    ELSE FlagBound(flag.default, tokens)

\* Flag.parse has returned or raised on a stream that held a token.
FlagActed == pc \in {"flag_returned", "flag_raised"} /\ tokens # <<>>

Excluded(flag, token) ==
    InSeq(token, flag.exclude) \/ InSeq(mod(flag.case_sensitive, token), flag.exclude)

s_b1 == <<"b">>

s_c1 == <<"c">>

s_endb == <<"e", "n", "d", "b">>

s_endt == <<"e", "n", "d", "t">>

s_A == <<"A">>

Body(name) == NodeList(name, NoEndtags, TRUE)

\* BlockTag('b', NodeList('m'))
BlockB == BlockTag(s_b1, <<Body(<<"m">>)>>)

\* BlockTag('c', NodeList('k'))
BlockC == BlockTag(s_c1, <<Body(<<"k">>)>>)

\* BlockTag('b', NodeList('m'), EndTag())
ClosedBlockB == BlockTag(s_b1, <<Body(<<"m">>), EndTag(None, TRUE)>>)

\* BlockTag('c', NodeList('k'), EndTag())
ClosedBlockC == BlockTag(s_c1, <<Body(<<"k">>), EndTag(None, TRUE)>>)

UnnamedEnd == EndTag(None, TRUE)

\* NodeList('n'), BlockTag('b', NodeList('m'), required=False), EndTag()
SkippableBlock == <<Body(<<"n">>), NotRequiredBlockTag(s_b1, <<Body(<<"m">>)>>), UnnamedEnd>>

\* NodeList('n'), OneOf(BlockTag('b', ...), BlockTag('c', ...)), EndTag()
EitherBlock == <<Body(<<"n">>), OneOf(<<BlockB, BlockC>>), UnnamedEnd>>

\* BlockTag('b', NodeList('m'), EndTag(), required=False), EndTag()
SkippableBlockFirst ==
    <<NotRequiredBlockTag(s_b1, <<Body(<<"m">>), UnnamedEnd>>), UnnamedEnd>>

\* The well-formed Options(...) declarations.
BlockTags ==
    { <<Body(<<"n">>), EndTag(None, TRUE)>>,
      <<Literal(<<"n">>, NoEndtags, TRUE), EndTag(None, TRUE)>>,
      <<NodeList(<<"n">>, <<s_endt>>, TRUE), EndTag(None, TRUE)>>,
      <<Required(<<"x">>), Body(<<"n">>), BlockB, EndTag(None, TRUE)>>,
      <<Body(<<"n">>), Optional(<<BlockB>>), EndTag(None, TRUE)>>,
      SkippableBlock,
      EitherBlock,
      <<OneOf(<<ClosedBlockB, ClosedBlockC>>), EndTag(None, TRUE)>>,
      <<Body(<<"n">>), Repetition(<<"r">>, <<ClosedBlockB>>, 0, 0), EndTag(None, TRUE)>>,
      <<Repetition(<<"r">>, <<ClosedBlockB>>, 0, 0), EndTag(None, TRUE)>>,
      <<Body(<<"n">>), Optional(<<ClosedBlockB>>), UnnamedEnd>> }

\* The malformed ones.
MalformedTags ==
    { <<Body(<<"n">>)>>,
      <<Required(<<"x">>), Optional(<<Body(<<"n">>)>>)>>,
      <<Body(<<"n">>), Required(<<"x">>)>>,
      <<Body(<<"n">>), NotRequired(<<"x">>, d_plain), EndTag(None, TRUE)>>,
      <<Body(<<"n">>), Str(s_as), EndTag(None, TRUE)>>,
      <<Body(<<"n">>), OneOf(<<BlockB, Required(<<"x">>)>>), EndTag(None, TRUE)>>,
      <<ClosedBlockB>>,
      <<ClosedBlockB, EndTag(None, TRUE)>>,
      SkippableBlockFirst,
      <<EndTag(None, TRUE), Required(<<"x">>)>>,
      <<Body(<<"n">>), EndTag(None, TRUE), EndTag(None, TRUE)>>,
      <<Body(<<"n">>), EndTag(None, TRUE), BlockB>> }

\* How many tokens a document holds at most.
DocLen == 5

DocVocab ==
    {DocToken(TOKEN_TEXT, <<s_A>>), DocToken(TOKEN_BLOCK, <<s_b1>>), DocToken(TOKEN_BLOCK, <<s_endb>>),
     DocToken(TOKEN_BLOCK, <<s_endt>>)}

Documents == SeqsUpTo(DocVocab, DocLen)

\* The arguments of the invocations.
BlockInputs == {<<>>, <<NameTok(s_a)>>}

InitBlocks ==
    /\ options \in {[initialized |-> FALSE, arguments |-> t, parser |-> NoArg] :
                       t \in BlockTags \cup MalformedTags}
    /\ tokens \in BlockInputs
    /\ pc = "constructed"
    /\ parser \in {[tokens |-> d] : d \in Documents}
    /\ stream = <<>>
    /\ container = Container
    /\ arguments = <<>>
    /\ attempt = NoAttempt
    /\ alternatives = <<>>
    /\ reps = <<>>
    /\ err = NoErr
    /\ rendered = <<>>
    /\ threads = <<>>
    /\ expr_parser = <<>>
    /\ Elsewhere

SpecBlocks == InitBlocks /\ [][Next]_vars

(***************************************************************************)
(* The end-tags of a NodeList, read off the declaration.                   *)
(***************************************************************************)
\* The declaration with every EndTag given the tag name it closes: that of
\* the BlockTag around it, or that of the tag.
RECURSIVE Named(_, _)
Named(declared, tagname) ==
    [k \in 1..Len(declared) |->
        IF declared[k].kind = "EndTag" THEN initialize(declared[k], tagname)
        ELSE IF declared[k].kind = "BlockTag"
        THEN [declared[k] EXCEPT !.arguments = Named(@, declared[k].tagname)]
        ELSE IF declared[k].kind \in {"OneOf", "Optional", "Repetition"}
        THEN [declared[k] EXCEPT !.arguments = Named(@, tagname)]
        ELSE declared[k]]

\* A descriptor an invocation may leave out.
Skippable(arg) == IsOptional(arg) \/ (arg.kind # "basestring" /\ ~arg.required)

\* The descriptors an invocation may go on with at the head of `following`.
RECURSIVE FirstArgs(_)
FirstArgs(following) ==
    IF following = <<>> THEN {}
    ELSE LET arg == Head(following)
             own == IF IsOptional(arg) THEN FirstArgs(arg.arguments)
                    ELSE IF arg.kind = "OneOf"
                    THEN UNION {FirstArgs(<<arg.arguments[k]>>) : k \in DOMAIN arg.arguments}
                    ELSE {arg}
         IN  own \cup (IF Skippable(arg) THEN FirstArgs(Tail(following)) ELSE {})

\* What may follow the NodeList called name: the rest of its list, then
\* what follows the composite around it; an alternative of a OneOf is
\* followed by what follows the OneOf.
RECURSIVE FollowerArgs(_, _, _)
FollowerArgs(declared, name, after) ==
    IF declared = <<>> THEN {}
    ELSE LET arg == Head(declared)
             rest == Tail(declared) \o after
         IN  IF IsNodeList(arg) /\ arg.name = name THEN FirstArgs(rest)
             ELSE IF arg.kind = "OneOf"
             THEN UNION {FollowerArgs(<<arg.arguments[k]>>, name, rest) :
                            k \in DOMAIN arg.arguments}
                  \cup FollowerArgs(Tail(declared), name, after)
             ELSE IF IsMultiArgument(arg)
             THEN FollowerArgs(arg.arguments, name, rest)
                  \cup FollowerArgs(Tail(declared), name, after)
             ELSE FollowerArgs(Tail(declared), name, after)

\* The tag names of the BlockTag/EndTag descriptors among them.
Followers(declared, name) ==
    {arg.tagname : arg \in {f \in FollowerArgs(Named(declared, TagName), name, <<>>) :
                                IsBlockOrEnd(f)}}

\* The NodeList called name in the structured tree, in a list of one, or
\* the empty list.
RECURSIVE FindNodeList(_, _)
FindNodeList(structured, name) ==
    IF structured = <<>> THEN <<>>
    ELSE IF IsNodeList(Head(structured)) /\ Head(structured).name = name
    THEN <<Head(structured)>>
    ELSE IF IsMultiArgument(Head(structured))
    THEN FindNodeList(Head(structured).arguments \o Tail(structured), name)
    ELSE FindNodeList(Tail(structured), name)

NodeListNames == {<<"n">>, <<"m">>, <<"k">>}

\* Every NodeList/Literal of the structured tree that was declared without
\* end-tags has the tag names that may follow it as its end-tags.
EndtagsAsDeclared(declared, structured) ==
    \A name \in NodeListNames :
        \A k \in DOMAIN FindNodeList(structured, name) :
            LET nodelist == FindNodeList(structured, name)[k]
            IN  nodelist.explicit_endtags = NoEndtags
                    => SeqToSet(nodelist.endtags) = Followers(declared, name)

\* C13: when Options.initialize structures a declaration, every
\* NodeList/Literal declared without explicit end-tags gets as its end-tags
\* the tag names of the BlockTag/EndTag descriptors that may come right
\* after it: the next descriptor, the first descriptors of the optional or
\* non-required descriptors that may be skipped before it, and the
\* alternatives of a OneOf that follows.
C13_EndtagsAreFollowers ==
    [][(pc = "constructed" /\ pc' = "initialized")
          => EndtagsAsDeclared(options.arguments, options'.parser.arguments)]_vars

\* NodeList('n'), BlockTag('b', ..., required=False), EndTag() has been
\* structured: the end-tags of n hold b alone.
C13_Witness ==
    /\ Declared(SkippableBlock)
    /\ options.initialized
    /\ FindNodeList(Structured, <<"n">>)[1].endtags = <<s_b1>>

(***************************************************************************)
(* Malformed orderings, read off the declaration.                          *)
(***************************************************************************)
\* A NodeList without explicit end-tags that nothing follows, or that
\* something other than a BlockTag or an EndTag may follow.
NodeListMisplaced(declared) ==
    \E name \in NodeListNames :
        /\ FindNodeList(declared, name) # <<>>
        /\ FindNodeList(declared, name)[1].explicit_endtags = NoEndtags
        /\ \/ FollowerArgs(declared, name, <<>>) = {}
           \/ \E f \in FollowerArgs(declared, name, <<>>) : ~IsBlockOrEnd(f)

\* An EndTag with a descriptor declared after it in its list.
RECURSIVE EndTagNotLast(_)
EndTagNotLast(declared) ==
    \/ \E k \in 1..(Len(declared) - 1) : declared[k].kind = "EndTag"
    \/ \E k \in DOMAIN declared :
          IsMultiArgument(declared[k]) /\ EndTagNotLast(declared[k].arguments)

BlockTagFirst(declared) == declared # <<>> /\ declared[1].kind = "BlockTag"

Malformed(declared) ==
    NodeListMisplaced(declared) \/ EndTagNotLast(declared) \/ BlockTagFirst(declared)

\* C14: Options.initialize raises ImproperlyConfigured, and leaves the
\* Options uninitialized so that no invocation is parsed, for a declaration
\* in which a NodeList without explicit end-tags is last or is followed by
\* something other than BlockTag/EndTag, a BlockTag comes first, or a
\* descriptor is declared after an EndTag.
C14_MalformedRejected ==
    [][(pc = "constructed" /\ pc' # "constructed" /\ Malformed(options.arguments))
          => /\ pc' = "misconfigured"
             /\ err' = "ImproperlyConfigured"
             /\ ~options'.initialized]_vars

\* BlockTag('b', NodeList('m'), EndTag(), required=False), EndTag() has
\* been initialized, the BlockTag in front wrapped in an Optional.
C14_Witness ==
    /\ options.initialized
    /\ Declared(SkippableBlockFirst)
    /\ Structured[1].kind = "Optional"
    /\ Structured[1].arguments[1].kind = "BlockTag"

(***************************************************************************)
(* The node lists a bag holds, at any depth.                               *)
(***************************************************************************)
\* The node lists Parser.parse built among the values of a bag: its own,
\* and those of the repetitions bound in it.
RECURSIVE CapturedIn(_), CapturedInBag(_)
CapturedIn(value) ==
    IF value.cls = "StaticValue"
    THEN IF value.value.t = "nodelist" /\ value.value.at > 0 THEN {value.value} ELSE {}
    ELSE IF value.cls = "ListValue"
    THEN UNION {CapturedIn(value.items[k]) : k \in DOMAIN value.items}
    ELSE IF value.cls = "RepContainer" THEN CapturedInBag(value)
    ELSE {}

CapturedInBag(c) ==
    UNION ({CapturedIn(c.tag_args[k]) : k \in DOMAIN c.tag_args}
           \cup {CapturedIn(c.tag_kwargs[n]) : n \in DOMAIN c.tag_kwargs})

\* Each list once, the earlier capture first: a later capture began with
\* fewer document tokens unread.
InCaptureOrder(nodelists) ==
    \A i, j \in DOMAIN nodelists : i < j => nodelists[i].at > nodelists[j].at

\* C15: after a successful parse, tag_nodelists holds every node list that a
\* NodeList descriptor captured, at whatever depth it is bound (the bag
\* itself or a repetition of it), exactly once and in capture order.
C15_NodeListsAggregated ==
    pc \in {"parsed", "rendered"}
        => /\ SeqToSet(container.tag_nodelists) = CapturedInBag(container)
           /\ InCaptureOrder(container.tag_nodelists)

\* NodeList('n'), Repetition('r', BlockTag('b', NodeList('m'), EndTag())),
\* EndTag() parsed over A {% b %} A {% endb %} {% endt %}: the list of n and
\* the list of the one repetition.
C15_Witness ==
    /\ pc = "parsed"
    /\ Len(container.tag_nodelists) = 2
    /\ <<"r">> \in DOMAIN container.tag_kwargs
    /\ Len(container.tag_kwargs[<<"r">>].items) = 1
    /\ CapturedInBag(container.tag_kwargs[<<"r">>].items[1])
           = {container.tag_nodelists[2]}
    /\ container.tag_kwargs[<<"n">>].value = container.tag_nodelists[1]

(***************************************************************************)
(* Lexer.tokeniter over one source string (lexer.py).  The rules of the    *)
(* only state, 'root', are tried in order at pos: whitespace, float,       *)
(* integer, name, string, operator.  The sources of the model are written  *)
(* with brackets, the letter a, the comma and the single quote, so that    *)
(* the name, string and operator rules are the ones that can match.        *)
(* Lexer.tokenize builds the TokenStream from deque(generator): the        *)
(* generator runs to its end, or raises, inside the call.                  *)
(***************************************************************************)
\* No invocation of a tag takes place.
NoInvocation ==
    /\ options = [initialized |-> FALSE, arguments |-> <<>>, parser |-> NoArg]
    /\ tokens = <<>>
    /\ pc = "rest"
    /\ parser = DjangoParser
    /\ stream = <<>>
    /\ container = Container
    /\ arguments = <<>>
    /\ attempt = NoAttempt
    /\ alternatives = <<>>
    /\ reps = <<>>
    /\ err = NoErr
    /\ rendered = <<>>
    /\ threads = <<>>
    /\ expr_parser = <<>>

InvocationUnchanged ==
    UNCHANGED <<options, tokens, pc, parser, stream, container, arguments, attempt,
                alternatives, reps, err, rendered, threads, expr_parser>>

LexLen == 4

LexChars == {"(", ")", "[", "]", "{", "}", "a", ",", "'"}

Sources == SeqsUpTo(LexChars, LexLen)

\* tokens.py OPERATORS, for the operators of LexChars
operators ==
    [c \in {"(", ")", "[", "]", "{", "}", ","} |->
        CASE c = "(" -> "lparen" [] c = ")" -> "rparen"
          [] c = "[" -> "lbracket" [] c = "]" -> "rbracket"
          [] c = "{" -> "lbrace" [] c = "}" -> "rbrace"
          [] c = "," -> "comma"]

\* name_re at pos: the run of name characters
RECURSIVE NameEnd(_, _)
NameEnd(source, pos) ==
    IF pos < Len(source) /\ source[pos + 1] = "a" THEN NameEnd(source, pos + 1) ELSE pos

\* string_re after an opening quote: the index of the next quote, 0 if none
RECURSIVE StringEnd(_, _)
StringEnd(source, j) ==
    IF j > Len(source) THEN 0
    ELSE IF source[j] = "'" THEN j
    ELSE StringEnd(source, j + 1)

NoMatch == [token |-> "", data |-> <<>>, end |-> 0]

\* for regex, tokens, new_state in statetokens: the first rule that matches
\* at pos.  [token, data, end]
RuleMatch(source, pos) ==
    IF pos >= Len(source) THEN NoMatch
    ELSE IF source[pos + 1] = "a"
    THEN [token |-> "name", data |-> SubSeq(source, pos + 1, NameEnd(source, pos)),
          end |-> NameEnd(source, pos)]
    ELSE IF source[pos + 1] = "'"
    THEN IF StringEnd(source, pos + 2) = 0 THEN NoMatch
         ELSE [token |-> "string", data |-> SubSeq(source, pos + 1, StringEnd(source, pos + 2)),
               end |-> StringEnd(source, pos + 2)]
    ELSE [token |-> "operator", data |-> SubSeq(source, pos + 1, pos + 1), end |-> pos + 1]

\* update brace/parentheses balance.  [err, balancing_stack]
Balance(balancing_stack, data) ==
    IF data = <<"{">> THEN [err |-> NoErr, balancing_stack |-> Append(balancing_stack, "}")]
    ELSE IF data = <<"(">> THEN [err |-> NoErr, balancing_stack |-> Append(balancing_stack, ")")]
    ELSE IF data = <<"[">> THEN [err |-> NoErr, balancing_stack |-> Append(balancing_stack, "]")]
    ELSE IF data \in {<<"}">>, <<")">>, <<"]">>}
    THEN IF balancing_stack = <<>>
         THEN [err |-> "TemplateSyntaxError", balancing_stack |-> balancing_stack]
         ELSE IF balancing_stack[Len(balancing_stack)] # Head(data)
         THEN [err |-> "TemplateSyntaxError",
               balancing_stack |-> SubSeq(balancing_stack, 1, Len(balancing_stack) - 1)]
         ELSE [err |-> NoErr,
               balancing_stack |-> SubSeq(balancing_stack, 1, Len(balancing_stack) - 1)]
    ELSE [err |-> NoErr, balancing_stack |-> balancing_stack]

\* Lexer.wrap: a string loses its quotes, an operator takes its own type
wrap(token, data) ==
    IF token = "string" THEN Token("string", SubSeq(data, 2, Len(data) - 1))
    ELSE IF token = "operator" THEN Token(operators[Head(data)], data)
    ELSE Token(token, data)

InitLexer ==
    /\ NoInvocation
    /\ lexer \in {[source |-> s, pos |-> 0, balancing_stack |-> <<>>, tokens |-> <<>>,
                   pc |-> "tokenizing", err |-> NoErr] : s \in Sources}
    /\ heap = AtRest
    /\ expression = AtRest

\* m is the match of the rule, b the balance after it
LexerMatched(m, b) ==
    IF b.err # NoErr
    THEN lexer' = [lexer EXCEPT !.pc = "raised", !.err = b.err,
                                !.balancing_stack = b.balancing_stack]
    ELSE lexer' = [lexer EXCEPT !.pos = m.end, !.balancing_stack = b.balancing_stack,
                                !.tokens = Append(@, wrap(m.token, m.data))]

\* One turn of the tokenizer loop in which a rule matches.
LexerRule ==
    /\ lexer.pc = "tokenizing"
    /\ RuleMatch(lexer.source, lexer.pos) # NoMatch
    /\ LET m == RuleMatch(lexer.source, lexer.pos)
       IN  LexerMatched(m, IF m.token = "operator"
                           THEN Balance(lexer.balancing_stack, m.data)
                           ELSE [err |-> NoErr, balancing_stack |-> lexer.balancing_stack])
    /\ InvocationUnchanged
    /\ UNCHANGED <<heap, expression>>

\* The turn in which no rule matches: the end of the text, where the
\* generator returns, or an unexpected character.
LexerNoRule ==
    /\ lexer.pc = "tokenizing"
    /\ RuleMatch(lexer.source, lexer.pos) = NoMatch
    /\ IF lexer.pos >= Len(lexer.source)
       THEN lexer' = [lexer EXCEPT !.pc = "returned"]
       ELSE lexer' = [lexer EXCEPT !.pc = "raised", !.err = "TemplateSyntaxError"]
    /\ InvocationUnchanged
    /\ UNCHANGED <<heap, expression>>

NextLexer == LexerRule \/ LexerNoRule

SpecLexer == InitLexer /\ [][NextLexer]_vars

\* The brackets among the tokens, in order.
Brackets(toks) ==
    SelectSeq(toks, LAMBDA t : t.type \in {"lparen", "rparen", "lbracket", "rbracket",
                                           "lbrace", "rbrace"})

Pairs == {<<"lparen", "rparen">>, <<"lbracket", "rbracket">>, <<"lbrace", "rbrace">>}

\* A bracket sequence is balanced when it is empty, or when taking out an
\* opener that stands right before its own closer leaves a balanced one.
RECURSIVE Balanced(_)
Balanced(bs) ==
    \/ bs = <<>>
    \/ \E i \in 1..(Len(bs) - 1) :
           /\ <<bs[i].type, bs[i + 1].type>> \in Pairs
           /\ Balanced(SubSeq(bs, 1, i - 1) \o SubSeq(bs, i + 2, Len(bs)))

\* C16: the lexer returns only for a source whose brackets are balanced: a
\* closer that does not match the last open bracket, a closer with nothing
\* open, and the end of the source with a bracket still open each raise.
C16_BalancedOnly ==
    lexer.pc = "returned" => Balanced(Brackets(lexer.tokens))

\* "(a," is tokenized to its end, with ")" still expected, and returned.
C16_Witness ==
    /\ lexer.pc = "returned"
    /\ lexer.source = <<"(", "a", ",">>
    /\ lexer.balancing_stack = <<")">>
    /\ Len(lexer.tokens) = 3

\* What the lexer does hold to: a returned source has no closer without its
\* opener, and a balanced source with every quote closed is returned.
RECURSIVE OpenersOnly(_)
OpenersOnly(bs) ==
    \/ \A i \in DOMAIN bs : bs[i].type \in {"lparen", "lbracket", "lbrace"}
    \/ \E i \in 1..(Len(bs) - 1) :
           /\ <<bs[i].type, bs[i + 1].type>> \in Pairs
           /\ OpenersOnly(SubSeq(bs, 1, i - 1) \o SubSeq(bs, i + 2, Len(bs)))

ClosersMatched ==
    lexer.pc = "returned" => OpenersOnly(Brackets(lexer.tokens))

(***************************************************************************)
(* TokenStream objects (lexer.py).  A TokenStream holds a reference to its *)
(* deque _pushed; the heap keeps the deques by identity, so that two       *)
(* streams holding one deque would see each other's operations.  The       *)
(* operators above give each method's effect on the tokens of a deque; the *)
(* ones here apply it to the deque of the stream `w` of the heap h.        *)
(***************************************************************************)
StreamLen == 2

MaxOps == 3

StreamVocab == {NameTok(s_a), NameTok(s_b)}

\* What Token.test is given: a type, or "type:value"
TokenExprs == {[type |-> "name", value |-> None], [type |-> "name", value |-> s_b]}

NoStream == [_pushed |-> 0, closed |-> FALSE]

Deque(h, w) == h.deques[h[w]._pushed]

WithDeque(h, w, q) == [h EXCEPT !.deques[h[w]._pushed] = q]

\* A copy that holds the deque of its origin, not a new one.
TokenStream_copy_shared(h) ==
    [h EXCEPT !.copied = [_pushed |-> h.origin._pushed, closed |-> h.origin.closed]]

\* TokenStream.__copy__: a TokenStream over deque(self._pushed), a new deque
\* of the same tokens, with the closed flag of the origin.
TokenStream_copy(h) ==
    [h EXCEPT !.deques = Append(@, Deque(h, "origin")),
              !.copied = [_pushed |-> Len(h.deques) + 1, closed |-> h.origin.closed]]

\* TokenStream.__next__: popleft, or close() when the deque is empty; the
\* old current token is returned.  [heap, rv, err]
TokenStream_next(h, w) ==
    [heap |-> IF Deque(h, w) # <<>> THEN WithDeque(h, w, next(Deque(h, w)))
              ELSE [h EXCEPT ![w].closed = TRUE],
     rv |-> current(Deque(h, w)), err |-> NoErr]

\* TokenStream.push: appendleft
TokenStream_push(h, w, token) == WithDeque(h, w, push(Deque(h, w), token))

\* TokenStream.look: next(self), read current, push the old token back
TokenStream_pushed_back(h, w, old) ==
    [heap |-> TokenStream_push(old.heap, w, old.rv),
     rv |-> current(Deque(old.heap, w)), err |-> NoErr]

TokenStream_look(h, w) == TokenStream_pushed_back(h, w, TokenStream_next(h, w))

\* TokenStream.skip: n times next(self); returns None
RECURSIVE TokenStream_skip(_, _, _)
TokenStream_skip(h, w, n) ==
    IF n = 0 THEN [heap |-> h, rv |-> Token("None", <<>>), err |-> NoErr]
    ELSE TokenStream_skip(TokenStream_next(h, w).heap, w, n - 1)

\* TokenStream.next_if: next(self) when the current token passes the test
TokenStream_next_if(h, w, expr) ==
    IF test(current(Deque(h, w)), expr.type, expr.value) THEN TokenStream_next(h, w)
    ELSE [heap |-> h, rv |-> Token("None", <<>>), err |-> NoErr]

\* TokenStream.expect: UnexpectedTokenError when the test fails; otherwise
\* the current token is returned and, in the finally clause, passed.
TokenStream_expect(h, w, expr) ==
    IF ~test(current(Deque(h, w)), expr.type, expr.value)
    THEN [heap |-> h, rv |-> Token("None", <<>>), err |-> "UnexpectedTokenError"]
    ELSE TokenStream_next(h, w)

InitStream ==
    /\ NoInvocation
    /\ lexer = AtRest
    /\ expression = AtRest
    /\ heap \in {[deques |-> <<q>>, origin |-> [_pushed |-> 1, closed |-> FALSE],
                  copied |-> NoStream, ops |-> 0,
                  last |-> [op |-> "TokenStream", on |-> "origin",
                            rv |-> Token("None", <<>>), err |-> NoErr]] :
                 q \in SeqsUpTo(StreamVocab, StreamLen)}

\* The streams there are
Live == IF heap.copied = NoStream THEN {"origin"} ELSE {"origin", "copied"}

\* The call of the method op on the stream w has returned r.
Applied(op, w, r) ==
    /\ heap.ops < MaxOps
    /\ heap' = [r.heap EXCEPT !.ops = heap.ops + 1,
                              !.last = [op |-> op, on |-> w, rv |-> r.rv, err |-> r.err]]
    /\ InvocationUnchanged
    /\ UNCHANGED <<lexer, expression>>

\* copy(stream)
StreamCopy ==
    /\ heap.copied = NoStream
    /\ heap' = TokenStream_copy(heap)
    /\ InvocationUnchanged
    /\ UNCHANGED <<lexer, expression>>

StreamAdvance == \E w \in Live : Applied("next", w, TokenStream_next(heap, w))

StreamPush ==
    \E w \in Live, token \in StreamVocab :
        Applied("push", w, [heap |-> TokenStream_push(heap, w, token),
                            rv |-> Token("None", <<>>), err |-> NoErr])

StreamSkip == \E w \in Live, n \in 1..2 : Applied("skip", w, TokenStream_skip(heap, w, n))

StreamLook == \E w \in Live : Applied("look", w, TokenStream_look(heap, w))

StreamNextIf ==
    \E w \in Live, expr \in TokenExprs :
        Applied("next_if", w, TokenStream_next_if(heap, w, expr))

StreamExpect ==
    \E w \in Live, expr \in TokenExprs :
        Applied("expect", w, TokenStream_expect(heap, w, expr))

NextStream ==
    \/ StreamCopy
    \/ StreamAdvance
    \/ StreamPush
    \/ StreamSkip
    \/ StreamLook
    \/ StreamNextIf
    \/ StreamExpect

SpecStream == InitStream /\ [][NextStream]_vars

\* What a caller can see of the stream w: list, size, current, eos.
Seen(h, w) ==
    [list |-> Deque(h, w), size |-> size(Deque(h, w)), current |-> current(Deque(h, w)),
     eos |-> eos(Deque(h, w))]

\* A method has been called in this step.
Called == heap'.ops = heap.ops + 1

Other(w) == IF w = "origin" THEN "copied" ELSE "origin"

\* C17: once a stream is copied, a method called on the copy leaves the
\* remaining tokens, the size and the current token of the origin as they
\* were, and a method called on the origin leaves those of the copy.
C17_CopyIndependent ==
    [][(Called /\ heap.copied # NoStream)
           => Seen(heap', Other(heap'.last.on)) = Seen(heap, Other(heap'.last.on))]_vars

\* The copy of a b was advanced and had b pushed: it holds b b and the
\* origin a b.
C17_Witness ==
    /\ heap.copied # NoStream
    /\ heap.last.on = "copied"
    /\ heap.last.op = "push"
    /\ Deque(heap, "origin") = <<NameTok(s_a), NameTok(s_b)>>
    /\ Deque(heap, "copied") = <<NameTok(s_b), NameTok(s_b)>>

\* The token after the current one
TokenAfter(q) == IF Len(q) >= 2 THEN q[2] ELSE EOF_TOKEN_INSTANCE

\* C18: look() returns the token after the current one, the EOF token when
\* there is none, and leaves the stream it is called on as it was: the same
\* remaining tokens, size, current token and eos, whatever is left in it.
C18_LookConsumesNothing ==
    [][(Called /\ heap'.last.op = "look")
           => /\ heap'.last.rv = TokenAfter(Deque(heap, heap'.last.on))
              /\ Seen(heap', heap'.last.on) = Seen(heap, heap'.last.on)]_vars

\* look() on an exhausted stream: the EOF token it was handed by next() is
\* pushed, and the stream holds one token.
C18_Witness ==
    /\ heap.last.op = "look"
    /\ heap.last.on = "origin"
    /\ heap.last.rv = EOF_TOKEN_INSTANCE
    /\ Deque(heap, "origin") = <<EOF_TOKEN_INSTANCE>>
    /\ heap.origin.closed

\* look() on a stream that holds a token leaves it as it was.
LookOnTokens ==
    [][(Called /\ heap'.last.op = "look" /\ Deque(heap, heap'.last.on) # <<>>)
           => /\ heap'.last.rv = TokenAfter(Deque(heap, heap'.last.on))
              /\ Seen(heap', heap'.last.on) = Seen(heap, heap'.last.on)]_vars

(***************************************************************************)
(* Filters (ExprParser.parse_filter, nodes.Filter).  The streams of this   *)
(* part are written with names, the pipe and the colon: of the chain from  *)
(* ExprParser.parse down to parse_unary only parse_primary and, on a pipe, *)
(* parse_filter find a token of theirs.  django_parser is the document     *)
(* parser handed to ExprParser.parse, known here by the filters registered *)
(* with it; lookups are the names find_filter has been called with.        *)
(***************************************************************************)
s_f == <<"f">>

s_g == <<"g">>

FilterLen == 4

FilterVocab ==
    {NameTok(s_a), NameTok(s_f), NameTok(s_g), Token("pipe", <<"|">>), Token("colon", <<":">>)}

\* The Parser of a template that has loaded f, and of one that has loaded f and g.
DjangoParsers == {[filters |-> {s_f}], [filters |-> {s_f, s_g}]}

\* nodes.Filter(node, filter_func, name, args, ...)
Filter(node, filter_func, name, args) ==
    [node |-> "Filter", operand |-> node, filter_func |-> filter_func, name |-> name,
     args |-> args]

\* django's Parser.find_filter: the registered function, or TemplateSyntaxError
find_filter(django_parser, name) ==
    IF name \in django_parser.filters THEN [err |-> NoErr, filter_func |-> name]
    ELSE [err |-> "TemplateSyntaxError", filter_func |-> None]

Filtered(node, rest, lookups) ==
    [ok |-> TRUE, node |-> node, rest |-> rest, err |-> NoErr, lookups |-> lookups]

NotFiltered(raised, rest, lookups) ==
    [ok |-> FALSE, node |-> NoNode, rest |-> rest, err |-> raised, lookups |-> lookups]

\* parse_filter: while the current token is a pipe, the filter's name, its
\* argument after a colon, then find_filter(name) and the Filter node.
\* [ok, node, rest, err, lookups]
RECURSIVE parse_filter(_, _, _, _), FilterName(_, _, _, _), FilterArgs(_, _, _, _, _), FilterFound(_, _, _, _, _, _)
parse_filter(node, s, django_parser, lookups) ==
    IF current(s).type # "pipe" THEN Filtered(node, s, lookups)
    ELSE FilterName(node, expect(next(s), "name"), django_parser, lookups)

FilterName(node, nm, django_parser, lookups) ==
    IF ~nm.ok THEN NotFiltered(nm.err, nm.rest, lookups)
    ELSE IF current(nm.rest).type = "colon"
    THEN FilterArgs(node, nm.token.value, parse_unary(next(nm.rest), FALSE),
                    django_parser, lookups)
    ELSE FilterFound(node, nm.token.value, <<>>, nm.rest, django_parser, lookups)

FilterArgs(node, name, a, django_parser, lookups) ==
    IF ~a.ok THEN NotFiltered(a.err, a.rest, lookups)
    ELSE FilterFound(node, name, <<a.node>>, a.rest, django_parser, lookups)

\* filter_func = self.django_parser.find_filter(name)
FilterFound(node, name, args, rest, django_parser, lookups) ==
    IF find_filter(django_parser, name).err # NoErr
    THEN NotFiltered(find_filter(django_parser, name).err, rest, Append(lookups, name))
    ELSE parse_filter(Filter(node, find_filter(django_parser, name).filter_func, name, args),
                      rest, django_parser, Append(lookups, name))

FilterOperand(p, django_parser) ==
    IF ~p.ok THEN NotFiltered(p.err, p.rest, <<>>)
    ELSE parse_filter(p.node, p.rest, django_parser, <<>>)

\* ExprParser.parse(stream, django_parser)
ExprParser_parse(s, django_parser) == FilterOperand(parse_primary(s), django_parser)

\* self.filter_func(node, *args): the value the registered function makes
Apply(filter_func, value, args) ==
    Resolved([t |-> "filtered", by |-> filter_func, of |-> value, args |-> args])

\* Filter.resolve: the operand with resolve_safe, the arguments with
\* resolve, then the function bound when the node was built.
RECURSIVE ResolveFilter(_, _)
FilterApplied(node, operand, args) ==
    IF operand.err # NoErr THEN operand
    ELSE IF \E k \in DOMAIN args : args[k].err # NoErr
    THEN args[CHOOSE k \in DOMAIN args : args[k].err # NoErr]
    ELSE Apply(node.filter_func, operand.value, [k \in DOMAIN args |-> args[k].value])

ResolveFilter(node, context) ==
    IF node.node = "Filter"
    THEN FilterApplied(node, resolve_safe(ResolveFilter(node.operand, context)),
                       [k \in DOMAIN node.args |-> ResolveFilter(node.args[k], context)])
    ELSE ResolveNode(node, context)

InitFilter ==
    /\ NoInvocation
    /\ lexer = AtRest
    /\ heap = AtRest
    /\ expression \in {[stream |-> s, django_parser |-> d, pc |-> "tokenized", node |-> NoNode,
                     lookups |-> <<>>, err |-> NoErr, value |-> NoneV] :
                    s \in SeqsUpTo(FilterVocab, FilterLen) \ {<<>>}, d \in DjangoParsers}

FilterParsed(r) ==
    expression' = [expression EXCEPT !.pc = IF r.ok THEN "parsed" ELSE "raised",
                               !.node = r.node, !.err = r.err, !.lookups = @ \o r.lookups]

\* The expression is parsed, as Argument.clean_token has it parsed.
FilterParse ==
    /\ expression.pc = "tokenized"
    /\ FilterParsed(ExprParser_parse(expression.stream, expression.django_parser))
    /\ InvocationUnchanged
    /\ UNCHANGED <<lexer, heap>>

FilterResolved(r) ==
    expression' = [expression EXCEPT !.pc = IF r.err = NoErr THEN "resolved" ELSE "unresolved",
                               !.err = r.err, !.value = r.value]

\* The parsed expression is resolved against the context of a render.
FilterResolve ==
    /\ expression.pc = "parsed"
    /\ FilterResolved(ResolveFilter(expression.node, Context))
    /\ InvocationUnchanged
    /\ UNCHANGED <<lexer, heap>>

NextFilter == FilterParse \/ FilterResolve

SpecFilter == InitFilter /\ [][NextFilter]_vars

\* A parser that finds every name.
EveryFilter == [filters |-> {s_a, s_f, s_g}]

\* C19: parsing an expression never calls find_filter: whatever parses when
\* every filter name is known parses when some are not, and no lookup has
\* been made by the time the parse returns or raises.
C19_LookupDeferred ==
    (expression.pc \in {"parsed", "raised"} /\ ExprParser_parse(expression.stream, EveryFilter).ok)
        => expression.pc = "parsed" /\ expression.lookups = <<>>

\* a|g with only f loaded: find_filter was called with g while parsing, and
\* the parse raised.
C19_Witness ==
    /\ expression.stream = <<NameTok(s_a), Token("pipe", <<"|">>), NameTok(s_g)>>
    /\ expression.django_parser.filters = {s_f}
    /\ expression.pc = "raised"
    /\ expression.err = "TemplateSyntaxError"
    /\ expression.lookups = <<s_g>>

\* Resolving looks nothing up: the Filter node applies the function it holds.
ResolveLooksNothingUp ==
    [][expression.pc = "parsed" => expression'.lookups = expression.lookups]_vars

(***************************************************************************)
(* Tuple, List and Dict literals (nodes.py).                               *)
(***************************************************************************)
List(items) == [node |-> "List", items |-> items]

Tuple(items) == [node |-> "Tuple", items |-> items]

Dict(items) == [node |-> "Dict", items |-> items]

Pair(key, value) == [node |-> "Pair", key |-> key, value |-> value]

\* except VariableDoesNotExist: resolved_list.append("")
ItemResolved(r) == IF r.err = "VariableDoesNotExist" THEN Resolved(StrV(<<>>)) ELSE r

\* Pair.resolve on the resolved key and value: a key that does not exist is
\* a NameError, a value that does not exist is "".  Resolved(<<key, value>>)
PairResolved(key, value) ==
    IF key.err = "VariableDoesNotExist" THEN Raised("NameError")
    ELSE IF key.err # NoErr THEN key
    ELSE IF ItemResolved(value).err # NoErr THEN value
    ELSE Resolved(<<key.value, ItemResolved(value).value>>)

RECURSIVE ResolveLiteral(_, _), ResolveItems(_, _), ResolvePairs(_, _, _)
\* for item in self.items, of Tuple.resolve and List.resolve
ResolveItems(items, context) ==
    IF items = <<>> THEN Resolved(<<>>)
    ELSE ConsResolved(ItemResolved(ResolveLiteral(Head(items), context)),
                      ResolveItems(Tail(items), context))

PairPut(resolved_dict, resolved_pair, items, context) ==
    IF resolved_pair.err # NoErr THEN resolved_pair
    ELSE ResolvePairs(Tail(items), context,
                      DictPut(resolved_dict, resolved_pair.value[1], resolved_pair.value[2]))

\* for pair in self.items, of Dict.resolve
ResolvePairs(items, context, resolved_dict) ==
    IF items = <<>> THEN Resolved(resolved_dict)
    ELSE PairPut(resolved_dict,
                 PairResolved(ResolveLiteral(Head(items).key, context),
                              ResolveLiteral(Head(items).value, context)),
                 items, context)

AsTuple(resolved) ==
    IF resolved.err # NoErr THEN resolved
    ELSE Resolved([t |-> "tuple", items |-> resolved.value])

\* The resolve method of a node, by class.
ResolveLiteral(node, context) ==
    IF node.node = "List" THEN AsList(ResolveItems(node.items, context))
    ELSE IF node.node = "Tuple" THEN AsTuple(ResolveItems(node.items, context))
    ELSE IF node.node = "Dict" THEN AsDict(ResolvePairs(node.items, context, EmptyMap))
    ELSE ResolveNode(node, context)

LiteralLen == 2

\* A name of the context, a name that is not in it, a constant.
Elements == {Name(s_a), Name(s_g), Const(StrV(<<"x">>))}

Literals ==
    {List(items) : items \in SeqsUpTo(Elements, LiteralLen)}
    \cup {Tuple(items) : items \in SeqsUpTo(Elements, LiteralLen)}
    \cup {Dict(items) : items \in SeqsUpTo({Pair(k, v) : k, v \in Elements}, LiteralLen)}
    \cup {List(<<e, Tuple(<<f>>)>>) : e, f \in Elements}

InitLiterals ==
    /\ NoInvocation
    /\ lexer = AtRest
    /\ heap = AtRest
    /\ expression \in {[node |-> n, pc |-> "parsed", err |-> NoErr, value |-> NoneV] :
                       n \in Literals}

LiteralResolved(r) ==
    expression' = [expression EXCEPT !.pc = IF r.err = NoErr THEN "resolved" ELSE "unresolved",
                                     !.err = r.err, !.value = r.value]

\* node.resolve(context)
LiteralResolve ==
    /\ expression.pc = "parsed"
    /\ LiteralResolved(ResolveLiteral(expression.node, Context))
    /\ InvocationUnchanged
    /\ UNCHANGED <<lexer, heap>>

NextLiterals == LiteralResolve

SpecLiterals == InitLiterals /\ [][NextLiterals]_vars

\* The element is a name the context does not have.
Undefined(node) == node.node = "Name" /\ node.name \notin DOMAIN Context

\* What the element stands for in a resolved literal: "" when it is
\* undefined, and otherwise the value it resolves to.
RECURSIVE Substituted(_)
Substituted(node) ==
    IF Undefined(node) THEN StrV(<<>>)
    ELSE IF node.node \in {"List", "Tuple"}
    THEN [t |-> IF node.node = "List" THEN "list" ELSE "tuple",
          items |-> [k \in DOMAIN node.items |-> Substituted(node.items[k])]]
    ELSE IF node.node = "Dict"
    THEN [t |-> "dict",
          items |-> [key \in {Substituted(node.items[k].key) : k \in DOMAIN node.items} |->
                        LET last == CHOOSE k \in DOMAIN node.items :
                                        /\ Substituted(node.items[k].key) = key
                                        /\ \A j \in DOMAIN node.items :
                                               Substituted(node.items[j].key) = key => j <= k
                        IN  Substituted(node.items[last].value)]]
    ELSE ResolveNode(node, Context).value

\* C20: a Dict, List or Tuple literal resolves without an exception whatever
\* elements are undefined, to the literal of its elements' values with ""
\* in the place of every undefined element, a Dict's keys included.
C20_UndefinedIsEmpty ==
    expression.pc \in {"resolved", "unresolved"}
        => expression.err = NoErr /\ expression.value = Substituted(expression.node)

\* {g: a} with g undefined: Pair.resolve raises NameError for the key.
C20_Witness ==
    /\ expression.node = Dict(<<Pair(Name(s_g), Name(s_a))>>)
    /\ expression.pc = "unresolved"
    /\ expression.err = "NameError"

\* Where no key of a Dict is undefined the literal resolves as stated.
HasUndefinedKey(node) ==
    node.node = "Dict" /\ \E k \in DOMAIN node.items : Undefined(node.items[k].key)

UndefinedIsEmptyButKeys ==
    (expression.pc \in {"resolved", "unresolved"} /\ ~HasUndefinedKey(expression.node))
        => expression.err = NoErr /\ expression.value = Substituted(expression.node)

(***************************************************************************)
(* IntegerValue (values.py): StringValue.resolve with IntegerValue.clean,  *)
(* and StringValue.error, which reads settings.DEBUG and calls             *)
(* warnings.warn.  A resolve returns [err, value, warned].                 *)
(***************************************************************************)
IntegerValue(var) == [cls |-> "IntegerValue", var |-> var]

value_on_error == StrV(<<>>)

DigitValue == ("0" :> 0) @@ ("1" :> 1) @@ ("2" :> 2)

\* The number a run of digits writes, most significant first
RECURSIVE DigitsValue(_, _)
DigitsValue(digits, acc) ==
    IF digits = <<>> THEN acc
    ELSE DigitsValue(Tail(digits), 10 * acc + DigitValue[Head(digits)])

RECURSIVE StripSpaces(_)
StripSpaces(s) ==
    IF s # <<>> /\ Head(s) = " " THEN StripSpaces(Tail(s))
    ELSE IF s # <<>> /\ s[Len(s)] = " " THEN StripSpaces(SubSeq(s, 1, Len(s) - 1))
    ELSE s

\* int() of a string that has lost its surrounding whitespace: a sign, then
\* one digit or more
IntOfLiteral(s) ==
    IF s # <<>> /\ Head(s) \in {"-", "+"}
    THEN IF Tail(s) # <<>> /\ \A k \in DOMAIN Tail(s) : Tail(s)[k] \in DOMAIN DigitValue
         THEN Resolved(IntV(IF Head(s) = "-" THEN 0 - DigitsValue(Tail(s), 0)
                            ELSE DigitsValue(Tail(s), 0)))
         ELSE Raised("ValueError")
    ELSE IF s # <<>> /\ \A k \in DOMAIN s : s[k] \in DOMAIN DigitValue
    THEN Resolved(IntV(DigitsValue(s, 0)))
    ELSE Raised("ValueError")

\* Python's int(value): a number is truncated, a string is read as a
\* literal or is a ValueError, anything else is a TypeError.
int(value) ==
    IF IsNum(value) THEN Resolved(IntV(Num(value)))
    ELSE IF value.t = "str" THEN IntOfLiteral(StripSpaces(value.s))
    ELSE Raised("TypeError")

Cleaned(r, warned) == [err |-> r.err, value |-> r.value, warned |-> warned]

\* StringValue.error
error(DEBUG) ==
    IF DEBUG THEN Cleaned(Raised("TemplateSyntaxError"), FALSE)
    ELSE Cleaned(Resolved(value_on_error), TRUE)

\* IntegerValue.clean
IntegerClean(value, DEBUG) ==
    IF value = StrV(<<>>) THEN Cleaned(Resolved(NoneV), FALSE)
    ELSE IF int(value).err = "ValueError" THEN error(DEBUG)
    ELSE Cleaned(int(value), FALSE)

\* StringValue.resolve of an IntegerValue, on what self.var resolved to
IntegerResolved(resolved, DEBUG) ==
    IF resolved.err = "VariableDoesNotExist" THEN Cleaned(Resolved(NoneV), FALSE)
    ELSE IF resolved.err # NoErr THEN Cleaned(resolved, FALSE)
    ELSE IntegerClean(resolved.value, DEBUG)

IntegerValue_resolve(v, context, DEBUG) ==
    IntegerResolved(ResolveNode(v.var, context), DEBUG)

IntLen == 2

MaxResolves == 3

s_i == <<"i">>

\* What the context holds for the variable i
IntegerInputs ==
    {StrV(s) : s \in SeqsUpTo({"1", "2", "-", " ", "x"}, IntLen)}
    \cup {NoneV, IntV(1), BoolV(TRUE), [t |-> "list", items |-> <<>>]}

InitInteger ==
    /\ NoInvocation
    /\ lexer = AtRest
    /\ heap = AtRest
    /\ expression \in {[value |-> IntegerValue(Name(s_i)), context |-> c, DEBUG |-> d,
                        resolves |-> <<>>] :
                       c \in {(s_i :> v) : v \in IntegerInputs} \cup {EmptyMap},
                       d \in BOOLEAN}

\* kwargs['integer'].resolve(context), once more
IntegerResolve ==
    /\ Len(expression.resolves) < MaxResolves
    /\ expression' = [expression EXCEPT !.resolves =
           Append(@, IntegerValue_resolve(expression.value, expression.context,
                                          expression.DEBUG))]
    /\ InvocationUnchanged
    /\ UNCHANGED <<lexer, heap>>

NextInteger == IntegerResolve

SpecInteger == InitInteger /\ [][NextInteger]_vars

\* The strings that write an integer: blanks, a sign or none, digits, blanks
IntegerLiterals ==
    {lead \o sign \o digits \o trail :
        lead \in SeqsUpTo({" "}, IntLen + 1), sign \in {<<>>, <<"-">>, <<"+">>},
        digits \in SeqsUpTo(DOMAIN DigitValue, IntLen + 1) \ {<<>>},
        trail \in SeqsUpTo({" "}, IntLen + 1)}

\* The variable resolved to something that is not empty and that is neither
\* a number nor a string that writes one.
Unconvertible(context) ==
    /\ s_i \in DOMAIN context
    /\ context[s_i] # StrV(<<>>)
    /\ ~IsNum(context[s_i])
    /\ ~(context[s_i].t = "str" /\ context[s_i].s \in IntegerLiterals)

AsTheModeSays(r, DEBUG) ==
    IF DEBUG THEN r.err = "TemplateSyntaxError"
    ELSE r.err = NoErr /\ r.value = value_on_error /\ r.warned

\* C21: every resolve of an integer value whose input cannot be converted
\* raises TemplateSyntaxError in debug mode and, otherwise, warns and
\* returns value_on_error.
C21_ModeDecides ==
    Unconvertible(expression.context)
        => \A k \in DOMAIN expression.resolves :
               AsTheModeSays(expression.resolves[k], expression.DEBUG)

\* i is None and DEBUG is off: int(None) is a TypeError, which clean does
\* not catch.
C21_Witness ==
    /\ expression.context = (s_i :> NoneV)
    /\ ~expression.DEBUG
    /\ Len(expression.resolves) = 2
    /\ \A k \in 1..2 : expression.resolves[k].err = "TypeError"
                       /\ ~expression.resolves[k].warned

\* For an input that is a string the mode decides, each time.
ModeDecidesForStrings ==
    (Unconvertible(expression.context) /\ expression.context[s_i].t = "str")
        => \A k \in DOMAIN expression.resolves :
               AsTheModeSays(expression.resolves[k], expression.DEBUG)


(***************************************************************************)
(* What the wrappers do with an error of a speculative attempt.            *)
(***************************************************************************)

\* The syntax errors an attempt can raise: the argument-level errors of
\* exceptions.py, and the plain TemplateSyntaxError of ExprParser.fail.
SyntaxErrors == BaseErrors \cup {"TemplateSyntaxError"}

\* The speculative attempt of a wrapper has raised a syntax error.
AttemptFailed ==
    /\ pc \in {"optional", "oneof_tried", "repetition_tried"}
    /\ attempt.err \in SyntaxErrors

\* The wrapper goes on as after an alternative that does not match: Optional
\* installs its defaults, OneOf turns to the next alternative, Repetition
\* ends its loop with the repetitions committed so far.
TreatedAsNoMatch ==
    /\ pc = "optional" => pc' = "parsing"
    /\ pc = "oneof_tried" => pc' = "oneof"
    /\ pc = "repetition_tried" =>
          /\ pc' \in {"parsing", "raised"}
          /\ pc' = "raised" =>
                err' = RepetitionFinish(current_arg, parser, stream, container, reps).err

\* C25: every syntax error raised inside the speculative attempt of an
\* Optional, a OneOf alternative or a Repetition iteration, the plain
\* TemplateSyntaxError of the expression parser included, is caught and
\* treated as "this alternative does not match"; none propagates out of the
\* wrapper.
C25_AttemptErrorsCaught == [][AttemptFailed => TreatedAsNoMatch]_vars

\* An Optional whose attempt met a malformed expression.
C25_Witness ==
    /\ pc = "optional"
    /\ attempt.err = "TemplateSyntaxError"

\* The same of the errors derived from BaseError alone.
BaseErrorsCaught == [][(AttemptFailed /\ IsBaseError(attempt.err)) => TreatedAsNoMatch]_vars


(***************************************************************************)
(* The re-execution of a successful attempt on the live objects.           *)
(***************************************************************************)

\* The speculative attempt of a wrapper has succeeded.
AttemptSucceeded ==
    /\ pc \in {"optional", "oneof_tried", "repetition_tried"}
    /\ attempt.err = NoErr

\* C26: whenever the speculative attempt of an Optional, a OneOf alternative
\* or a Repetition iteration succeeds, the re-execution against the live
\* stream and the live bag succeeds too, so that the parse never raises with
\* part of a composite's values written into the live bag.
C26_CommitSucceeds == [][AttemptSucceeded => pc' # "raised"]_vars

\* The re-execution of an Optional has raised with the first of its two
\* values written into the live bag.
C26_Witness ==
    /\ Declared(<<Required(<<"x">>), Optional(<<Required(<<"y">>), Required(<<"x">>)>>)>>)
    /\ pc = "raised"
    /\ err = "KeywordInUse"
    /\ DOMAIN container.tag_kwargs = {<<"x">>, <<"y">>}
    /\ attempt.err = NoErr


(***************************************************************************)
(* The default repetition of a Repetition that matched nothing.            *)
(***************************************************************************)

\* The loop of a Repetition that min_reps lets match nothing has ended
\* without a repetition.
ZeroRepetitions ==
    /\ pc = "repetition_tried"
    /\ Caught(attempt.err)
    /\ reps = <<>>
    /\ current_arg.min_reps = 0

EveryChildHasDefault(arg) ==
    \A i \in 1..Len(arg.arguments) : HasGetDefault(arg.arguments[i])

\* The sequence Repetition.parse has bound in bag c.
BoundRepetitions(arg, c) ==
    IF arg.name = None THEN c.tag_args[Len(c.tag_args)] ELSE c.tag_kwargs[arg.name]

\* C27: a Repetition that matches zero repetitions binds exactly one default
\* repetition if every child declares a default, and the empty sequence if
\* some child (a Constant breakpoint, say) declares none.
C27_DefaultRepetition ==
    [][ZeroRepetitions =>
          /\ pc' = "parsing"
          /\ BoundRepetitions(current_arg, container') =
                ListValue(IF EveryChildHasDefault(current_arg)
                          THEN <<RepContainer(InstallDefaults(current_arg.arguments,
                                                              Container))>>
                          ELSE <<>>)]_vars

\* No repetition of a value and its breakpoint has matched.
C27_Witness ==
    /\ ZeroRepetitions
    /\ HasDefaults(current_arg.arguments)
    /\ ~EveryChildHasDefault(current_arg)

\* The same with "some child" for "every child".
DefaultRepetitionIfSome ==
    [][ZeroRepetitions =>
          /\ pc' = "parsing"
          /\ BoundRepetitions(current_arg, container') =
                ListValue(WithDefaultRepetition(current_arg, <<>>))]_vars


(***************************************************************************)
(* Tags whose values are followed by breakpoints and by siblings, on       *)
(* invocations that hold the words of the expression grammar.              *)
(***************************************************************************)
WordVocab ==
    {NameTok(s_a), NameTok(s_b), NameTok(s_as), NameTok(s_on), NameTok(KwIn),
     Token("add", s_plus)}

WordInputs == SeqsUpTo(WordVocab, MaxLen)

\* Argument('x'), c, Argument('y')
ValueThenBreakpoint(c) == <<Required(<<"x">>), Str(c), Required(<<"y">>)>>

\* MultiValueArgument('m') in front of its siblings.
Many == MultiValueArgument(<<"m">>, FALSE, 0, FALSE)

\* MultiValueArgument('m', required=True)
ManyRequired == MultiValueArgument(<<"m">>, TRUE, 0, FALSE)

WordTags ==
    { ValueThenBreakpoint(s_as),
      ValueThenBreakpoint(KwIn),
      <<Required(<<"x">>), Required(<<"y">>), Str(s_as), Required(<<"z">>)>>,
      <<Required(<<"x">>), Str(s_as), Required(<<"y">>), Str(KwIn), Required(<<"z">>)>>,
      <<Required(<<"x">>), Optional(<<Str(s_as), Required(<<"y">>)>>), Str(KwIn),
        Required(<<"z">>)>>,
      <<Required(<<"x">>), Str(s_as), NotRequired(<<"y">>, d_plain), Str(KwIn)>>,
      <<Many, Optional(<<Required(<<"v">>)>>)>>,
      <<Many, Required(<<"x">>), Required(<<"y">>)>>,
      <<ManyRequired, Str(s_as), FlagOn(NullV)>>,
      <<ManyRequired, FlagOn(NullV), Str(s_as)>>,
      <<Optional(<<Required(<<"x">>), Str(s_as)>>)>>,
      <<OneOf(<<Str(s_as), Required(<<"v">>)>>)>>,
      <<Repetition(<<"r">>, AsValue, 0, 0)>> }

InitWords ==
    /\ options \in {[initialized |-> FALSE, arguments |-> t, parser |-> NoArg] :
                       t \in WordTags}
    /\ tokens \in WordInputs
    /\ pc = "constructed"
    /\ parser = DjangoParser
    /\ stream = <<>>
    /\ container = Container
    /\ arguments = <<>>
    /\ attempt = NoAttempt
    /\ alternatives = <<>>
    /\ reps = <<>>
    /\ err = NoErr
    /\ rendered = <<>>
    /\ threads = <<>>
    /\ expr_parser = <<>>
    /\ Elsewhere

SpecWords == InitWords /\ [][Next]_vars

\* The exclusion lists of the descriptors of a structured list, by name.
RECURSIVE Excludes(_)
Excludes(args) ==
    UNION {IF HasExclude(args[k])
           THEN {[name |-> args[k].name, exclude |-> SeqToSet(args[k].exclude)]}
           ELSE IF IsMultiArgument(args[k]) THEN Excludes(args[k].arguments)
           ELSE {} : k \in DOMAIN args}

\* The values of the Constants declared after position i.
LaterConstants(declared, i) ==
    {declared[j].value : j \in {k \in i + 1..Len(declared) : declared[k].kind = "basestring"}}

\* C22: after the structuring pass the exclusion set of every value-capturing
\* descriptor holds the value of every Constant declared later in the
\* sequence, not only of the Constant that comes next, the Constants merged
\* into Optional wrappers included.
C22_ExcludesLaterConstants ==
    \A t \in WordTags :
        (Declared(t) /\ options.initialized) =>
            \A i \in DOMAIN t :
                HasExclude(t[i]) =>
                    \A d \in Excludes(Structured) :
                        d.name = t[i].name => LaterConstants(t, i) \subseteq d.exclude

\* Two values in front of one breakpoint have been structured.
C22_Witness ==
    /\ options.initialized
    /\ Declared(<<Required(<<"x">>), Required(<<"y">>), Str(s_as), Required(<<"z">>)>>)
    /\ pc = "initialized"

\* The same of the Constant declared directly after the descriptor.
ExcludesNextConstant ==
    \A t \in WordTags :
        (Declared(t) /\ options.initialized) =>
            \A i \in DOMAIN t :
                (HasExclude(t[i]) /\ i < Len(t) /\ t[i + 1].kind = "basestring") =>
                    \A d \in Excludes(Structured) :
                        d.name = t[i].name => t[i + 1].value \in d.exclude


\* The words a value of the model is written with.
ValueWords == {NameTok(s_a), NameTok(s_b)}

\* The invocation of Argument('x'), c, Argument('y') is written with a value,
\* then c, and x is the next child to parse.
ValueBeforeBreakpoint(c) ==
    /\ Declared(ValueThenBreakpoint(c))
    /\ pc = "parsing"
    /\ Len(arguments) = 3
    /\ Len(tokens) >= 2
    /\ tokens[1] \in ValueWords
    /\ tokens[2] = NameTok(c)

\* C23: a value-capturing descriptor never consumes a token that equals the
\* value of the breakpoint Constant that follows it: on an invocation that is
\* a value, then c, then more tokens, the parse of the value stops with c as
\* the current token of the stream, also when c is a word the expression
\* grammar treats as an operator (in).
C23_StopsAtBreakpoint ==
    [][\A c \in {s_as, KwIn} :
          ValueBeforeBreakpoint(c) =>
              /\ pc' = "parsing"
              /\ stream' = Tail(stream)
              /\ current(stream') = NameTok(c)]_vars

\* x has swallowed `a in b`.
C23_Witness ==
    /\ Declared(ValueThenBreakpoint(KwIn))
    /\ tokens = <<NameTok(s_a), NameTok(KwIn), NameTok(s_b)>>
    /\ pc = "parsing"
    /\ Len(arguments) = 2
    /\ stream = <<>>

\* The same of a breakpoint that is no operator of the expression grammar.
StopsAtPlainBreakpoint ==
    [][ValueBeforeBreakpoint(s_as) =>
          /\ pc' = "parsing"
          /\ stream' = Tail(stream)
          /\ current(stream') = NameTok(s_as)]_vars


\* Every token of the invocation is one value: a name that is no operator.
PlainNames ==
    \A i \in DOMAIN tokens :
        tokens[i] \in {NameTok(s_a), NameTok(s_b), NameTok(s_as), NameTok(s_on)}

\* A probe of a sibling that is not optional succeeds on the stream s.
SiblingClaims(siblings, s) ==
    \E j \in DOMAIN siblings :
        /\ ~IsOptional(siblings[j])
        /\ clean_token(siblings[j], copy(s)).err = NoErr

\* The next step parses the MultiValueArgument at the head of the tag on the
\* live stream: as the child of the tag, or as the only child of the
\* Optional the structuring pass has wrapped it in, whose attempt succeeded.
ManyNext ==
    /\ PlainNames
    /\ arguments # <<>>
    /\ nextargs_arguments # <<>>
    /\ \/ pc = "parsing" /\ current_arg.kind = "MultiValueArgument"
       \/ /\ pc = "optional"
          /\ attempt.err = NoErr
          /\ Len(current_arg.arguments) = 1
          /\ current_arg.arguments[1].kind = "MultiValueArgument"

\* C24: before it consumes an item a MultiValue argument probes, on a copy
\* of the stream, every remaining sibling that is not optional, and stops as
\* soon as one of the probes succeeds; optional siblings are not probed, and
\* the probes leave the live stream as it is.  So the argument consumes a
\* prefix of the stream, no item that a sibling which is not optional claims
\* is in it, and it stops at the end of the stream or where such a sibling
\* claims the next token.
C24_ProbesRequiredSiblings ==
    [][(ManyNext /\ pc' = "parsing") =>
          LET n == Len(stream) - Len(stream')
          IN  /\ n >= 0
              /\ stream' = SubSeq(stream, n + 1, Len(stream))
              /\ \A k \in 1..n :
                    ~SiblingClaims(nextargs_arguments, SubSeq(stream, k, Len(stream)))
              /\ stream' = <<>> \/ SiblingClaims(nextargs_arguments, stream')]_vars

\* The argument has stopped in front of a token that only its optional
\* sibling takes.
C24_Witness ==
    /\ Declared(<<Many, Optional(<<Required(<<"v">>)>>)>>)
    /\ tokens = <<NameTok(s_a)>>
    /\ pc = "parsing"
    /\ Len(arguments) = 1
    /\ stream = tokens
    /\ container.tag_kwargs = (<<"m">> :> ListValue(<<>>))

\* The probes leave the live stream as it is: what the argument has not
\* consumed is what the invocation holds behind it.
ConsumesPrefix ==
    [][(ManyNext /\ pc' = "parsing") =>
          LET n == Len(stream) - Len(stream')
          IN  n >= 0 /\ stream' = SubSeq(stream, n + 1, Len(stream))]_vars


(***************************************************************************)
(* Literal captures over documents that nest the tag in itself.            *)
(***************************************************************************)
CaptureLen == 4

\* Literal('n'), EndTag()
CaptureTag == <<Literal(<<"n">>, NoEndtags, TRUE), EndTag(None, TRUE)>>

\* Text, the opening block of the tag, its end tag, and a block called as
\* the Literal is.
CaptureVocab ==
    {DocToken(TOKEN_TEXT, <<s_A>>), DocToken(TOKEN_BLOCK, <<TagName>>),
     DocToken(TOKEN_BLOCK, <<s_endt>>), DocToken(TOKEN_BLOCK, <<<<"n">>>>)}

InitCapture ==
    /\ options = [initialized |-> FALSE, arguments |-> CaptureTag, parser |-> NoArg]
    /\ tokens = <<>>
    /\ pc = "constructed"
    /\ parser \in {[tokens |-> d] : d \in SeqsUpTo(CaptureVocab, CaptureLen)}
    /\ stream = <<>>
    /\ container = Container
    /\ arguments = <<>>
    /\ attempt = NoAttempt
    /\ alternatives = <<>>
    /\ reps = <<>>
    /\ err = NoErr
    /\ rendered = <<>>
    /\ threads = <<>>
    /\ expr_parser = <<>>
    /\ Elsewhere

NextCapture ==
    \/ Initialize
    \/ TagFunction
    \/ ParseArgument
    \/ BlockTagEnd
    \/ Render

SpecCapture == InitCapture /\ [][NextCapture]_vars

\* The position of the first end tag at depth zero from position i on, the
\* blocks called `opening` raising the depth and the end tags behind them
\* lowering it; 0 when the document ends before it.
RECURSIVE BalancingEnd(_, _, _, _)
BalancingEnd(document, opening, i, depth) ==
    IF i > Len(document) THEN 0
    ELSE IF document[i].token_type # TOKEN_BLOCK
    THEN BalancingEnd(document, opening, i + 1, depth)
    ELSE IF JoinWords(document[i].contents) = opening
    THEN BalancingEnd(document, opening, i + 1, depth + 1)
    ELSE IF JoinWords(document[i].contents) = s_end \o TagName
    THEN (IF depth = 0 THEN i ELSE BalancingEnd(document, opening, i + 1, depth - 1))
    ELSE BalancingEnd(document, opening, i + 1, depth)

\* The Literal is the next child to parse.
LiteralNext ==
    /\ pc = "parsing"
    /\ arguments # <<>>
    /\ current_arg.kind = "Literal"

\* The capture of the Literal ends in front of position e of the document,
\* or raises the unclosed-block error when e is 0.
CaptureEndsAt(e) ==
    IF e = 0
    THEN pc' = "raised" /\ err' = "TemplateSyntaxError"
    ELSE /\ pc' = "parsing"
         /\ parser'.tokens = SubSeq(parser.tokens, e, Len(parser.tokens))

\* C30: a Literal capture ends at the end tag that balances its own opening
\* tag: every opening block of the owning tag inside the captured region
\* raises the depth and is paired with an end tag of its own, the capture
\* stops at the first end tag at depth zero and leaves it to EndTag, and a
\* document that ends before that raises the unclosed-block error.
C30_CaptureBalanced ==
    [][LiteralNext => CaptureEndsAt(BalancingEnd(parser.tokens, TagName, 1, 0))]_vars

\* The tag is written inside its own Literal.
C30_Witness ==
    /\ LiteralNext
    /\ parser.tokens = <<DocToken(TOKEN_BLOCK, <<TagName>>), DocToken(TOKEN_BLOCK, <<s_endt>>),
                         DocToken(TOKEN_TEXT, <<s_A>>), DocToken(TOKEN_BLOCK, <<s_endt>>)>>

\* The same with the blocks called as the Literal itself for the blocks of
\* the owning tag.
CaptureBalancedByName ==
    [][LiteralNext => CaptureEndsAt(BalancingEnd(parser.tokens, current_arg.name, 1, 0))]_vars


(***************************************************************************)
(* Expressions with arithmetic operators and with conditions: the parse    *)
(* of ExprParser and the resolve of the node it built, against Context.    *)
(***************************************************************************)
ExprLen == 5

IntTok(i) == Token("integer", i)

\* The integers the expressions are written with.
ArithInts == {2, 3}

\* the token types of *, /, // and %
MulOps == {"mul", "div", "floordiv", "mod"}

ArithVocab == {IntTok(i) : i \in ArithInts} \cup {Token(o, <<>>) : o \in MulOps \cup {"add"}}

\* a is in the context, g is not; 0 is false and 2 is true.
CondVocab ==
    {NameTok(KwIf), NameTok(KwElse), NameTok(s_a), NameTok(s_g), IntTok(0), IntTok(2)}

InitExpr ==
    /\ NoInvocation
    /\ lexer = AtRest
    /\ heap = AtRest
    /\ expression \in {[pc |-> "tokens", stream |-> s] :
                          s \in SeqsUpTo(ArithVocab, ExprLen) \cup SeqsUpTo(CondVocab, ExprLen)}

ExprParsed(r) ==
    IF r.ok
    THEN expression' = [pc |-> "parsed", stream |-> expression.stream, node |-> r.node,
                        rest |-> r.rest]
    ELSE expression' = [pc |-> "failed", stream |-> expression.stream, err |-> r.err]

\* ExprParser().parse(stream, django_parser)
ExprParse ==
    /\ expression.pc = "tokens"
    /\ ExprParsed(parse_expression(expression.stream))
    /\ InvocationUnchanged
    /\ UNCHANGED <<lexer, heap>>

\* node.resolve(context)
ExprResolve ==
    /\ expression.pc = "parsed"
    /\ expression' = [pc |-> "resolved", stream |-> expression.stream,
                      node |-> expression.node, rest |-> expression.rest,
                      result |-> ResolveNode(expression.node, Context)]
    /\ InvocationUnchanged
    /\ UNCHANGED <<lexer, heap>>

NextExpr ==
    \/ ExprParse
    \/ ExprResolve

SpecExpr == InitExpr /\ [][NextExpr]_vars

\* The standard integer semantics of one operator.
IntOp(o, x, y) ==
    IF o = "add" THEN x + y
    ELSE IF o = "mul" THEN x * y
    ELSE IF o = "mod" THEN x % y
    ELSE x \div y

\* The expression written `a o1 b o2 c` has been resolved.
ResolvedChain(a, o1, b, o2, c) ==
    /\ expression.pc = "resolved"
    /\ Len(expression.stream) = 5
    /\ [k \in 1..5 |-> expression.stream[k].type] = <<"integer", o1, "integer", o2, "integer">>
    /\ <<expression.stream[1].value, expression.stream[3].value,
         expression.stream[5].value>> = <<a, b, c>>

\* C28: the operators *, /, // and % form one precedence level that binds
\* tighter than + and is evaluated left to right with integer semantics:
\* `a * b / c` resolves to (a*b)/c, `a * b % c` to (a*b)%c, and `a + b * c`
\* to a+(b*c).
C28_OneLevelLeftToRight ==
    \A a, b, c \in ArithInts :
        /\ \A o1, o2 \in MulOps :
              ResolvedChain(a, o1, b, o2, c) =>
                  expression.result = Resolved(IntV(IntOp(o2, IntOp(o1, a, b), c)))
        /\ \A o2 \in MulOps :
              ResolvedChain(a, "add", b, o2, c) =>
                  expression.result = Resolved(IntV(a + IntOp(o2, b, c)))

\* `2 * 3 % 2` has been resolved.
C28_Witness == ResolvedChain(2, "mul", 3, "mod", 2)

\* The levels as the parser nests them, loosest first: +, *, /, //, %.  An
\* operator to the right that does not bind tighter closes the operation to
\* its left, and one that binds tighter takes the middle operand first.
Tightness(o) ==
    IF o = "add" THEN 1
    ELSE IF o = "mul" THEN 2
    ELSE IF o = "div" THEN 3
    ELSE IF o = "floordiv" THEN 4
    ELSE 5

LevelsNested ==
    \A a, b, c \in ArithInts :
        \A o1, o2 \in MulOps \cup {"add"} :
            (ResolvedChain(a, o1, b, o2, c) /\ expression.result.err = NoErr) =>
                expression.result.value =
                    IF Tightness(o2) > Tightness(o1)
                    THEN IntV(IntOp(o1, a, IntOp(o2, b, c)))
                    ELSE IntV(IntOp(o2, IntOp(o1, a, b), c))


\* A conditional expression has been resolved.
Conditional ==
    /\ expression.pc = "resolved"
    /\ expression.node.node = "CondExpr"

\* The branch the resolved test selects.
Selected(cond, tst) == IF IsTrue(tst.value) THEN cond.expr1 ELSE cond.expr2

\* C29: `a if c else b` resolves to the value of a when c resolves truthy
\* and to the value of b otherwise, and depends on the selected branch only:
\* it is the value of the selected branch also when the other branch is
\* undefined in the context or, c being truthy, there is no else branch.
C29_SelectedBranchOnly ==
    Conditional =>
        LET tst == ResolveNode(expression.node.test, Context)
        IN  (/\ tst.err = NoErr
             /\ Selected(expression.node, tst) # NoNode
             /\ ResolveNode(Selected(expression.node, tst), Context).err = NoErr) =>
                expression.result = ResolveNode(Selected(expression.node, tst), Context)

\* `a if 2 else g` has been resolved: a is selected and g is undefined.
C29_Witness ==
    /\ Conditional
    /\ expression.stream =
          <<NameTok(s_a), NameTok(KwIf), IntTok(2), NameTok(KwElse), NameTok(s_g)>>

\* The same of the conditionals whose three fields all resolve.
SelectedOfThree ==
    Conditional =>
        LET tst == ResolveNode(expression.node.test, Context)
        IN  (/\ tst.err = NoErr
             /\ ResolveNode(expression.node.expr1, Context).err = NoErr
             /\ ResolveNode(expression.node.expr2, Context).err = NoErr) =>
                expression.result = ResolveNode(Selected(expression.node, tst), Context)

====
